---- MODULE Spec2Model ----
(***************************************************************************)
(* Model of tracewrap: the run-time trace recorder (package tracer) and    *)
(* the code the instrumentation engine (pkg/instrument/ast.go) injects     *)
(* into every function of the traced program.                              *)
(*                                                                         *)
(* The recorder state is the package-level variables of the tracer.  The   *)
(* traced program is a family of Go programs over the functions of the     *)
(* concurrency example: every goroutine ("unit") has its own Go stack of   *)
(* activations, every activation runs the injected prologue, its body and  *)
(* its deferred blocks in reverse order of registration.  Every recorder   *)
(* call is one atomic step (it runs under the recorder's mutex).           *)
(***************************************************************************)
EXTENDS Integers, Sequences, FiniteSets, TLC

\* ------------------------------------------------------------------ bounds
MaxUnits   == 2    \* goroutines of the traced program
MaxDepth   == 3    \* instrumented activations on one goroutine's stack
MaxIds     == 3    \* activations started in a run of one goroutine
MaxConcIds == 2    \* activations started in a run of several goroutines
MaxNest    == 2    \* control statements nested around a statement
MaxRuns    == 2    \* runs of the engine over the same file
MaxClock   == 3    \* readings of the clock: 0..MaxClock
MemBits    == 2    \* the width of the unsigned heap readings (64 in the code)
MaxTimed   == 2    \* records created in a run of the timed recorder
MaxImports == 3    \* import specs of a source file
MaxCalls   == 3    \* instrumented calls in the body of main
MaxThreads == 2    \* goroutines calling the recorder statement by statement
MaxLockOps == 4    \* recorder calls these goroutines begin

\* ------------------------------------------------- the traced program
Units  == 1..MaxUnits
Funcs  == {"main", "processJob", "logResult"}
Values == {1, 2}
Faults == {"boom"}
NoFault == "nil"
Deltas == {1}

\* declared parameter names, in declaration order
ParamNames(fn) ==
    IF fn = "processJob" THEN <<"jobID">>
    ELSE IF fn = "logResult" THEN <<"workerID", "jobID", "result">>
    ELSE <<>>

\* processJob returns jobID * 2; main and logResult have no results
HasResult(fn) == fn = "processJob"
ResultOf(fn, args) == IF fn = "processJob" THEN <<args[1] * 2>> ELSE <<>>

\* ------------------------------------------------------------ variables
VARIABLES
    traceRecords,   \* aggregated (finalized) trace records
    callStack,      \* stack of active trace records
    uniqueID,       \* id counter
    execFrequency,  \* per-name call counter
    frames,         \* per goroutine: its stack of instrumented activations
    nUnits,         \* number of goroutines this run may use
    proc,           \* "running", "exited" (main returned), "crashed"
    ustate,         \* per goroutine: "idle", "running" or "done"
    recovered,      \* history: some function recovered a fault itself
    act,            \* history: per RecordEntry call, in order: the id assigned,
                    \* the goroutine, the id of the calling activation, the id
                    \* of the activation that started the goroutine, and the
                    \* depth of the call stack before the call
    callgraph,      \* the file tracewrap/callgraph.dot: its nodes and edges
    file,           \* the engine: the declarations of the source file on disk
    orig,           \* history: the declarations before the engine first ran
    runs,           \* history: how often the engine has rewritten the file
    outcome,        \* what a call of the original and of the rewritten function gave
    importDecls,    \* the engine: the import declarations of the file on disk,
                    \* each a sequence of import specs
    ws,             \* the walk: the workspace and the exclude patterns
    pos,            \* the walk: the entry filepath.Walk visits next
    walk,           \* the walk: "walking", "done" (nil returned) or "failed"
    visited,        \* the walk: the entries the callback was called for, in order
    parsed,         \* the walk: the files handed to the parser, in order
    created,        \* the walk: per entry, how often it was opened for writing
    content,        \* the walk: per entry, what the file holds
    walkErr,        \* the walk: the error InstrumentWorkspace returns
    cmd,            \* buildTracedApplication: its position, its flags, the steps
                    \* it has started, the step that failed, its exit status
    clock,          \* the host: the reading time.Now() gives
    mem,            \* the host: the reading readMem() gives (m.Alloc)
    art,            \* the artifacts of a traced run: which file operations
                    \* failed, the logger in use, the lines logged, what the
                    \* program has done, its exit code
    staging,        \* PrepareWorkspace: the project directory, the files that
                    \* cannot be read, the workspace, and what was returned
    mu,             \* the recorder's mutex: 0, or the goroutine holding it
    heap,           \* the TraceRecord values the recorder's pointers refer to
    thr,            \* per goroutine calling the recorder: the function it is
                    \* in, the statement it is at, and its local variables
    nops,           \* the recorder calls begun so far
    freqCalls       \* history: per name, the increments RecordExecutionFrequency
                    \* calls have carried out

recorderVars == <<traceRecords, callStack, uniqueID, execFrequency>>

\* the traced program with its recorder, and the instrumentation engine
runVars == <<traceRecords, callStack, uniqueID, execFrequency,
             frames, nUnits, proc, ustate, recovered, act, callgraph>>
engineVars == <<file, orig, runs, outcome, importDecls>>
walkVars == <<ws, pos, walk, visited, parsed, created, content, walkErr>>
cmdVars == <<cmd>>
lockVars == <<mu, heap, thr, nops, freqCalls>>
hostVars == <<clock, mem, art, staging, lockVars>>
toolVars == <<engineVars, walkVars, cmdVars, hostVars>>

vars == <<runVars, toolVars>>

\* no call graph file has been written
NoGraph == [written |-> FALSE, nodes |-> <<>>, edges |-> <<>>]

\* no function has been called yet
NoOutcome == [ran |-> FALSE]

\* the engine has no file at hand
EngineIdle ==
    /\ file = [path |-> "", imports |-> {}, uses |-> {}, decls |-> <<>>]
    /\ orig = [path |-> "", imports |-> {}, uses |-> {}, decls |-> <<>>]
    /\ runs = 0
    /\ outcome = NoOutcome
    /\ importDecls = <<>>
\* no walk is under way
WalkIdle ==
    /\ ws = [broken |-> {}, unreadable |-> {}, exclude |-> <<>>]
    /\ pos = 1
    /\ walk = "none"
    /\ visited = <<>>
    /\ parsed = <<>>
    /\ created = <<>>
    /\ content = <<>>
    /\ walkErr = [path |-> <<>>, cause |-> ""]

\* the command has not been started
CmdIdle ==
    cmd = [pc |-> "none", project |-> FALSE, name |-> FALSE,
           started |-> <<>>, failed |-> "none", exit |-> -1]

\* the host's readings play no part
NoArtifacts ==
    [pc |-> "none", dirFailed |-> FALSE, openFailed |-> FALSE, dotFailed |-> FALSE,
     logger |-> "none", lines |-> <<>>, lost |-> 0, flow |-> <<>>, exit |-> -1]
NoStaging ==
    [project |-> <<>>, before |-> <<>>, unreadable |-> {}, workspace |-> {},
     returned |-> "none"]
\* no goroutine is inside the recorder
LockIdle ==
    /\ mu = 0
    /\ heap = <<>>
    /\ thr = <<>>
    /\ nops = 0
    /\ freqCalls = <<>>
HostIdle ==
    /\ clock = 0 /\ mem = 0 /\ art = NoArtifacts /\ staging = NoStaging
    /\ LockIdle

ToolsIdle == EngineIdle /\ WalkIdle /\ CmdIdle /\ HostIdle

\* ------------------------------------------------------------- helpers
Last(s)  == s[Len(s)]
Front(s) == SubSeq(s, 1, Len(s) - 1)
EmptyMap == [x \in {} |-> ""]
MapPut(m, k, v) == [x \in (DOMAIN m) \cup {k} |-> IF x = k THEN v ELSE m[x]]
SeqToSet(s) == {s[i] : i \in 1..Len(s)}

\* fmt.Sprintf("%+v", v) of an integer, and of a string
Sprintf(v) == ToString(v)
SprintfStr(s) == s

\* debug.Stack() taken inside the recovery block of fn: a non-empty text
DebugStack(fn) == fn

\* ---------------------------------------------------- recorder: records
\* RecordEntry's composite literal; every other field has its zero value.
\* The record carries the fields the recorder operations below write, apart
\* from the clock and memory readings.
NewRecord(id, functionName) ==
    [UniqueID        |-> id,
     FunctionName    |-> functionName,
     CallerID        |-> 0,
     Params          |-> EmptyMap,
     ReturnValues    |-> <<>>,
     PanicValue      |-> NoFault,
     StackTrace      |-> "",
     GoroutinesDelta |-> 0,
     ThreadsDelta    |-> 0,
     GCCountDelta    |-> 0,
     HeapAllocDelta  |-> 0,
     HeapFreeDelta   |-> 0,
     NetUsageDelta   |-> 0,
     DiskUsageDelta  |-> 0]

\* faulty variant: the counter is read, not advanced, once it is set
NextIDStale(uid) == IF uid = 0 THEN 1 ELSE uid

\* id := atomic.AddInt64(&uniqueID, 1)
NextID(uid) == uid + 1

\* callStack[len(callStack)-1]
Top(stack) == stack[Len(stack)]

\* faulty variant: the popped record stays on the stack
PopKeep(stack) == stack

\* callStack[:len(callStack)-1]
Pop(stack) == SubSeq(stack, 1, Len(stack) - 1)

\* faulty variant: the caller id is taken from the id counter, which already holds
\* the new record's own id
CallerIDFromCounter(stack, id) == IF Len(stack) > 0 THEN id ELSE 0

\* faulty variant: the caller is taken to be the record entered just before
CallerIDPrevious(stack, id) == IF Len(stack) > 0 THEN id - 1 ELSE 0

\* the caller id RecordEntry gives the new record: the id atop the stack, if any
CallerIDOf(stack, id) == IF Len(stack) > 0 THEN Top(stack).UniqueID ELSE 0

\* faulty variant: the record is put in front of the aggregate list
AggregateFront(records, top) == <<top>> \o records

\* traceRecords = append(traceRecords, top)
Aggregate(records, top) == Append(records, top)

\* the stack with its top record replaced (the code writes through the pointer)
SetTop(stack, rec) == [stack EXCEPT ![Len(stack)] = rec]

\* ------------------------------------------------- recorder: operations
RecordEntry(functionName) ==
    LET id     == NextID(uniqueID)
        record == [NewRecord(id, functionName)
                      EXCEPT !.CallerID = CallerIDOf(callStack, id)]
    IN  /\ uniqueID' = id
        /\ callStack' = Append(callStack, record)
        /\ UNCHANGED <<traceRecords, execFrequency>>

RecordParam(paramName, value) ==
    /\ callStack' =
          IF Len(callStack) > 0
          THEN SetTop(callStack, [Top(callStack) EXCEPT
                   !.Params = MapPut(@, paramName, SprintfStr(value))])
          ELSE callStack
    /\ UNCHANGED <<traceRecords, uniqueID, execFrequency>>

RecordReturn(functionName, returns) ==
    /\ callStack' =
          IF Len(callStack) > 0
          THEN SetTop(callStack, [Top(callStack) EXCEPT
                   !.ReturnValues =
                       @ \o [k \in 1..Len(returns) |-> Sprintf(returns[k])]])
          ELSE callStack
    /\ UNCHANGED <<traceRecords, uniqueID, execFrequency>>

\* (the startTime argument is not used by the code)
RecordExit(functionName) ==
    IF Len(callStack) > 0
    THEN /\ callStack' = Pop(callStack)
         /\ traceRecords' = Aggregate(traceRecords, Top(callStack))
         /\ UNCHANGED <<uniqueID, execFrequency>>
    ELSE UNCHANGED recorderVars

RecordPanic(functionName, panicValue, stack) ==
    /\ callStack' =
          IF Len(callStack) > 0
          THEN SetTop(callStack, [Top(callStack) EXCEPT
                   !.PanicValue = panicValue, !.StackTrace = stack])
          ELSE callStack
    /\ UNCHANGED <<traceRecords, uniqueID, execFrequency>>

RecordGoroutineUsage(functionName, delta) ==
    /\ callStack' =
          IF Len(callStack) > 0
          THEN SetTop(callStack, [Top(callStack) EXCEPT !.GoroutinesDelta = delta])
          ELSE callStack
    /\ UNCHANGED <<traceRecords, uniqueID, execFrequency>>

RecordThreadUsage(functionName, delta) ==
    /\ callStack' =
          IF Len(callStack) > 0
          THEN SetTop(callStack, [Top(callStack) EXCEPT !.ThreadsDelta = delta])
          ELSE callStack
    /\ UNCHANGED <<traceRecords, uniqueID, execFrequency>>

RecordGCActivity(functionName, delta) ==
    /\ callStack' =
          IF Len(callStack) > 0
          THEN SetTop(callStack, [Top(callStack) EXCEPT !.GCCountDelta = delta])
          ELSE callStack
    /\ UNCHANGED <<traceRecords, uniqueID, execFrequency>>

RecordHeapUsage(functionName, heapAllocDelta, heapFreeDelta) ==
    /\ callStack' =
          IF Len(callStack) > 0
          THEN SetTop(callStack, [Top(callStack) EXCEPT
                   !.HeapAllocDelta = heapAllocDelta,
                   !.HeapFreeDelta = heapFreeDelta])
          ELSE callStack
    /\ UNCHANGED <<traceRecords, uniqueID, execFrequency>>

RecordIOUsage(functionName, netUsageDelta, diskUsageDelta) ==
    /\ callStack' =
          IF Len(callStack) > 0
          THEN SetTop(callStack, [Top(callStack) EXCEPT
                   !.NetUsageDelta = netUsageDelta,
                   !.DiskUsageDelta = diskUsageDelta])
          ELSE callStack
    /\ UNCHANGED <<traceRecords, uniqueID, execFrequency>>

RecordExecutionFrequency(functionName) ==
    /\ execFrequency' = [execFrequency EXCEPT ![functionName] = @ + 1]
    /\ UNCHANGED <<traceRecords, callStack, uniqueID>>

\* faulty variant: the call finalizes the record atop the stack
RecordResourceUsageFinalizing(functionName) == RecordExit(functionName)

\* logs its arguments, touches no recorder state and takes no lock
RecordResourceUsage(functionName) == UNCHANGED recorderVars

\* the node lines of the DOT text: one per element of traceRecords, its
\* UniqueID the node's name (the label plays no part in the graph's shape)
DotNodes(records) == [i \in 1..Len(records) |-> records[i].UniqueID]

\* faulty variant: an edge for every record, the ones without a caller included
DotEdgesAll(records) ==
    [i \in 1..Len(records) |-> <<records[i].CallerID, records[i].UniqueID>>]

\* the edge lines: for _, rec := range traceRecords { if rec.CallerID != 0 {...} }
RECURSIVE DotEdges(_)
DotEdges(records) ==
    IF records = <<>> THEN <<>>
    ELSE LET rec == Head(records)
         IN  (IF rec.CallerID # 0 THEN <<(<<rec.CallerID, rec.UniqueID>>)>> ELSE <<>>)
                \o DotEdges(Tail(records))

\* DumpCallGraphDOT(outputFile): the graph written to the file
DumpCallGraphDOT(records) ==
    [written |-> TRUE, nodes |-> DotNodes(records), edges |-> DotEdges(records)]

\* ------------------------------------------ the injected instrumentation
\* faulty variant: the RecordExit call is not registered
InjectedDefersNoExit == <<"recover", "usage">>

\* the deferred blocks of the injected prologue, in order of registration:
\* the recovery block, the RecordExit call, the resource-delta block
InjectedDefers == <<"recover", "exit", "usage">>

\* faulty variant: the recovery block records the fault and does not raise it again
ReraiseNothing(r) == NoFault

\* the value the recovery block re-raises: panic(r)
ReraiseValue(r) == r

\* a fresh activation: the prologue has registered the deferred blocks and the
\* next statement is the RecordEntry call
NewFrame(fn, args) ==
    [fn      |-> fn,
     args    |-> args,
     pc      |-> "entry",
     i       |-> 0,
     defers  |-> InjectedDefers,
     fault   |-> NoFault,      \* the fault this activation is unwinding with
     r       |-> NoFault,      \* the recovery block's local r
     rets    |-> <<>>,         \* _ret0, _ret1, ... of a rewritten return
     rid     |-> 0,            \* history: the id its RecordEntry assigned
     by      |-> 0,            \* history: the id of the activation that started its goroutine
     inFault |-> NoFault,      \* history: the fault the unwinding began with
     calls   |-> <<>>]         \* history: the recorder calls it has issued

\* Go runs deferred calls in reverse order of registration.  The recovery
\* block starts with r := recover(), which ends the panicking; with r == nil
\* the block does nothing more.
RECURSIVE RunNextDefer(_)
RunNextDefer(fr) ==
    IF fr.defers = <<>> THEN [fr EXCEPT !.pc = "done"]
    ELSE LET d    == Last(fr.defers)
             rest == Front(fr.defers)
         IN  IF d = "usage" THEN [fr EXCEPT !.pc = "usage", !.i = 1, !.defers = rest]
             ELSE IF d = "exit" THEN [fr EXCEPT !.pc = "exit", !.defers = rest]
             ELSE IF fr.fault # NoFault
                  THEN [fr EXCEPT !.pc = "panic", !.r = fr.fault,
                                  !.fault = NoFault, !.defers = rest]
                  ELSE RunNextDefer([fr EXCEPT !.defers = rest])

\* ------------------------------------------------------ program state
Running(u) == proc = "running" /\ ustate[u] = "running" /\ frames[u] # <<>>
Cur(u) == Last(frames[u])
SetCur(u, fr) == [frames EXCEPT ![u] = [@ EXCEPT ![Len(@)] = fr]]
Called(fr, name) == [fr EXCEPT !.calls = Append(@, name)]

\* the activations a run may start
IdBudget == IF nUnits = 1 THEN MaxIds ELSE MaxConcIds

\* activations created whose RecordEntry has not run yet
Pending == Cardinality({u \in Units : frames[u] # <<>> /\ Cur(u).pc = "entry"})

InitWith(n) ==
    /\ traceRecords = <<>>
    /\ callStack = <<>>
    /\ uniqueID = 0
    /\ execFrequency = [fn \in Funcs |-> 0]
    /\ nUnits = n
    /\ frames = [u \in Units |-> IF u = 1 THEN <<NewFrame("main", <<>>)>> ELSE <<>>]
    /\ ustate = [u \in Units |-> IF u = 1 THEN "running" ELSE "idle"]
    /\ proc = "running"
    /\ recovered = FALSE
    /\ act = <<>>
    /\ callgraph = NoGraph
    /\ ToolsIdle

\* the arguments a call site passes
ArgsFor(fn, u, j) ==
    IF fn = "processJob" THEN <<j>>
    ELSE IF fn = "logResult" THEN <<u, j, j * 2>>
    ELSE <<>>

\* ------------------------------------------------------------- actions
\* the body calls an instrumented function
Call(u, fn, j) ==
    /\ Running(u) /\ Cur(u).pc = "body"
    /\ fn # "main"
    /\ Len(frames[u]) < MaxDepth
    /\ uniqueID + Pending < IdBudget
    /\ frames' = [frames EXCEPT ![u] = Append(@, NewFrame(fn, ArgsFor(fn, u, j)))]
    /\ UNCHANGED <<toolVars, callgraph, recorderVars, nUnits, proc, ustate, recovered, act>>

\* a go statement starts a goroutine that runs an instrumented function: in
\* the body of an activation, or in an init function (never instrumented),
\* that is before main's RecordEntry
Spawn(u, v, fn, j) ==
    /\ Running(u)
    /\ \/ Cur(u).pc = "body"
       \/ u = 1 /\ Cur(u).pc = "entry" /\ Len(frames[u]) = 1
    /\ v \in 2..nUnits /\ ustate[v] = "idle"
    /\ fn # "main"
    /\ uniqueID + Pending < IdBudget
    /\ frames' = [frames EXCEPT ![v] =
                      <<[NewFrame(fn, ArgsFor(fn, v, j)) EXCEPT !.by = Cur(u).rid]>>]
    /\ ustate' = [ustate EXCEPT ![v] = "running"]
    /\ UNCHANGED <<toolVars, callgraph, recorderVars, nUnits, proc, recovered, act>>

\* tracer.RecordEntry("fn")
Enter(u) ==
    /\ Running(u) /\ Cur(u).pc = "entry"
    /\ RecordEntry(Cur(u).fn)
    /\ LET fr == Cur(u)
           np == Len(ParamNames(fr.fn))
           caller == IF Len(frames[u]) > 1 THEN frames[u][Len(frames[u]) - 1].rid ELSE 0
       IN  /\ frames' = SetCur(u, Called([fr EXCEPT
                            !.rid = uniqueID',
                            !.pc = IF np > 0 THEN "param" ELSE "body",
                            !.i = IF np > 0 THEN 1 ELSE 0], "Entry"))
           /\ act' = Append(act, [id      |-> uniqueID',
                                  unit    |-> u,
                                  caller  |-> caller,
                                  spawner |-> fr.by,
                                  depth   |-> Len(callStack)])
    /\ UNCHANGED <<toolVars, callgraph, nUnits, proc, ustate, recovered>>

\* faulty variant: the parameters are logged last to first
ParamLogReversed(names, i) == names[Len(names) + 1 - i]

\* the i-th parameter log of the prologue: fields and names in declaration order
ParamLog(names, i) == names[i]

\* tracer.RecordParam("name", fmt.Sprintf("%+v", name)), one per parameter
Param(u) ==
    /\ Running(u) /\ Cur(u).pc = "param"
    /\ LET fr == Cur(u)
           names == ParamNames(fr.fn)
       IN  /\ RecordParam(ParamLog(names, fr.i), Sprintf(fr.args[fr.i]))
           /\ frames' = SetCur(u, Called([fr EXCEPT
                            !.pc = IF fr.i < Len(names) THEN "param" ELSE "body",
                            !.i = IF fr.i < Len(names) THEN fr.i + 1 ELSE 0], "Param"))
    /\ UNCHANGED <<toolVars, callgraph, nUnits, proc, ustate, recovered, act>>

\* a rewritten return: _ret0 := expr, then the RecordReturn call
ReturnStmt(u) ==
    /\ Running(u) /\ Cur(u).pc = "body"
    /\ HasResult(Cur(u).fn)
    /\ frames' = SetCur(u, [Cur(u) EXCEPT !.pc = "ret",
                                          !.rets = ResultOf(Cur(u).fn, Cur(u).args)])
    /\ UNCHANGED <<toolVars, callgraph, recorderVars, nUnits, proc, ustate, recovered, act>>

\* tracer.RecordReturn("fn", _ret0, ...); return _ret0, ...
Return(u) ==
    /\ Running(u) /\ Cur(u).pc = "ret"
    /\ RecordReturn(Cur(u).fn, Cur(u).rets)
    /\ frames' = SetCur(u, RunNextDefer(Called(Cur(u), "Return")))
    /\ UNCHANGED <<toolVars, callgraph, nUnits, proc, ustate, recovered, act>>

\* the body of a function without results ends
FallThrough(u) ==
    /\ Running(u) /\ Cur(u).pc = "body"
    /\ ~HasResult(Cur(u).fn)
    /\ Cur(u).fn # "main"
    /\ frames' = SetCur(u, RunNextDefer(Cur(u)))
    /\ UNCHANGED <<toolVars, callgraph, recorderVars, nUnits, proc, ustate, recovered, act>>

\* the last statement of main's body: tracer.DumpCallGraphDOT("callgraph.dot");
\* the body ends after it
DumpCallGraph(u) ==
    /\ Running(u) /\ Cur(u).pc = "body"
    /\ Cur(u).fn = "main"
    /\ callgraph' = DumpCallGraphDOT(traceRecords)
    /\ frames' = SetCur(u, RunNextDefer(Cur(u)))
    /\ UNCHANGED <<toolVars, recorderVars, nUnits, proc, ustate, recovered, act>>

\* a fault reaches activation fr: either a deferred recover() of the original
\* body (registered after the injected ones, so run before them) ends it, or
\* the injected deferred blocks run with the fault in flight
Faulted(fr, v, rec) ==
    IF rec THEN RunNextDefer(fr)
    ELSE RunNextDefer([fr EXCEPT !.fault = v, !.inFault = v])

\* the body raises a fault
PanicStmt(u, v, rec) ==
    /\ Running(u) /\ Cur(u).pc = "body"
    /\ frames' = SetCur(u, Faulted(Cur(u), v, rec))
    /\ recovered' = (recovered \/ rec)
    /\ UNCHANGED <<toolVars, callgraph, recorderVars, nUnits, proc, ustate, act>>

\* the resource-delta block: seven recorder calls in this order
UsageStep(u, k, name) ==
    /\ Running(u) /\ Cur(u).pc = "usage" /\ Cur(u).i = k
    /\ frames' = SetCur(u, IF k < 7
                           THEN Called([Cur(u) EXCEPT !.i = k + 1], name)
                           ELSE RunNextDefer(Called(Cur(u), name)))
    /\ UNCHANGED <<toolVars, callgraph, nUnits, proc, ustate, recovered, act>>

ResourceUsage(u) ==
    /\ UsageStep(u, 1, "ResourceUsage")
    /\ RecordResourceUsage(Cur(u).fn)

GoroutineUsage(u, d) ==
    /\ UsageStep(u, 2, "GoroutineUsage")
    /\ RecordGoroutineUsage(Cur(u).fn, d)

ThreadUsage(u, d) ==
    /\ UsageStep(u, 3, "ThreadUsage")
    /\ RecordThreadUsage(Cur(u).fn, d)

GCActivity(u, d) ==
    /\ UsageStep(u, 4, "GCActivity")
    /\ RecordGCActivity(Cur(u).fn, d)

HeapUsage(u, d, e) ==
    /\ UsageStep(u, 5, "HeapUsage")
    /\ RecordHeapUsage(Cur(u).fn, d, e)

IOUsage(u, d, e) ==
    /\ UsageStep(u, 6, "IOUsage")
    /\ RecordIOUsage(Cur(u).fn, d, e)

ExecutionFrequency(u) ==
    /\ UsageStep(u, 7, "ExecutionFrequency")
    /\ RecordExecutionFrequency(Cur(u).fn)

\* defer tracer.RecordExit("fn", __tracewrap_startTime)
Exit(u) ==
    /\ Running(u) /\ Cur(u).pc = "exit"
    /\ RecordExit(Cur(u).fn)
    /\ frames' = SetCur(u, RunNextDefer(Called(Cur(u), "Exit")))
    /\ UNCHANGED <<toolVars, callgraph, nUnits, proc, ustate, recovered, act>>

\* the recovery block with r != nil: tracer.RecordPanic("fn", r, string(debug.Stack()))
Panic(u) ==
    /\ Running(u) /\ Cur(u).pc = "panic"
    /\ RecordPanic(Cur(u).fn, Cur(u).r, DebugStack(Cur(u).fn))
    /\ frames' = SetCur(u, Called([Cur(u) EXCEPT !.pc = "reraise"], "Panic"))
    /\ UNCHANGED <<toolVars, callgraph, nUnits, proc, ustate, recovered, act>>

\* ... then panic(r): the activation is unwinding again
Reraise(u) ==
    /\ Running(u) /\ Cur(u).pc = "reraise"
    /\ frames' = SetCur(u, RunNextDefer([Cur(u) EXCEPT !.fault = ReraiseValue(Cur(u).r)]))
    /\ UNCHANGED <<toolVars, callgraph, recorderVars, nUnits, proc, ustate, recovered, act>>

\* all deferred blocks have run and no fault is in flight: back to the caller;
\* the program ends when main returns
Finish(u) ==
    /\ Running(u) /\ Cur(u).pc = "done" /\ Cur(u).fault = NoFault
    /\ frames' = [frames EXCEPT ![u] = Front(@)]
    /\ ustate' = [ustate EXCEPT ![u] = IF Len(frames[u]) = 1 THEN "done" ELSE @]
    /\ proc' = IF u = 1 /\ Len(frames[u]) = 1 THEN "exited" ELSE proc
    /\ UNCHANGED <<toolVars, callgraph, recorderVars, nUnits, recovered, act>>

\* all deferred blocks have run with a fault in flight: it reaches the caller
Propagate(u, rec) ==
    /\ Running(u) /\ Cur(u).pc = "done" /\ Cur(u).fault # NoFault
    /\ Len(frames[u]) > 1
    /\ LET caller == frames[u][Len(frames[u]) - 1]
       IN  frames' = [frames EXCEPT ![u] =
                         Append(SubSeq(@, 1, Len(@) - 2),
                                Faulted(caller, Cur(u).fault, rec))]
    /\ recovered' = (recovered \/ rec)
    /\ UNCHANGED <<toolVars, callgraph, recorderVars, nUnits, proc, ustate, act>>

\* ... or, with no caller left on the goroutine, ends the program
Crash(u) ==
    /\ Running(u) /\ Cur(u).pc = "done" /\ Cur(u).fault # NoFault
    /\ Len(frames[u]) = 1
    /\ frames' = [frames EXCEPT ![u] = <<>>]
    /\ ustate' = [ustate EXCEPT ![u] = "done"]
    /\ proc' = "crashed"
    /\ UNCHANGED <<toolVars, callgraph, recorderVars, nUnits, recovered, act>>

NextSingle ==
    \/ \E u \in Units, fn \in Funcs, j \in Values : Call(u, fn, j)
    \/ \E u \in Units : Enter(u)
    \/ \E u \in Units : Param(u)
    \/ \E u \in Units : ReturnStmt(u)
    \/ \E u \in Units : Return(u)
    \/ \E u \in Units : FallThrough(u)
    \/ \E u \in Units : DumpCallGraph(u)
    \/ \E u \in Units, v \in Faults, rec \in BOOLEAN : PanicStmt(u, v, rec)
    \/ \E u \in Units : ResourceUsage(u)
    \/ \E u \in Units, d \in Deltas : GoroutineUsage(u, d)
    \/ \E u \in Units, d \in Deltas : ThreadUsage(u, d)
    \/ \E u \in Units, d \in Deltas : GCActivity(u, d)
    \/ \E u \in Units, d \in Deltas, e \in Deltas : HeapUsage(u, d, e)
    \/ \E u \in Units, d \in Deltas, e \in Deltas : IOUsage(u, d, e)
    \/ \E u \in Units : ExecutionFrequency(u)
    \/ \E u \in Units : Exit(u)
    \/ \E u \in Units : Panic(u)
    \/ \E u \in Units : Reraise(u)
    \/ \E u \in Units : Finish(u)
    \/ \E u \in Units, rec \in BOOLEAN : Propagate(u, rec)
    \/ \E u \in Units : Crash(u)

Next ==
    \/ NextSingle
    \/ \E u \in Units, v \in Units, fn \in Funcs, j \in Values : Spawn(u, v, fn, j)

\* a program of one goroutine, or of up to MaxUnits goroutines
Init == \E n \in Units : InitWith(n)
Spec == Init /\ [][Next]_vars

\* a program that starts no goroutine
InitSingle == InitWith(1)
SpecSingle == InitSingle /\ [][NextSingle]_vars

\* ===================================================== the instrumentation engine
\* ------------------------------------------------------ syntax trees (go/ast)
\* an expression: its node kind, its text, the arguments of a call, and the
\* body of a function literal
Expr(kind, name, args, body) ==
    [kind |-> kind, Name |-> name, Args |-> args, Body |-> body]
Ident(name) == Expr("Ident", name, <<>>, <<>>)
BasicLit(value) == Expr("BasicLit", value, <<>>, <<>>)
CallExpr(fun, args) == Expr("CallExpr", fun, args, <<>>)
FuncLit(body) == Expr("FuncLit", "func", <<>>, body)

\* a statement: its node kind, a name (the variable an assignment defines),
\* its expressions (the results of a return), the statements of its body, and
\* the else branch of an if statement (at most one statement)
Stmt(kind, name, exprs, list, else) ==
    [kind |-> kind, Name |-> name, Exprs |-> exprs, List |-> list, Else |-> else]
ReturnStmtOf(results) == Stmt("ReturnStmt", "", results, <<>>, <<>>)
BlockStmt(list) == Stmt("BlockStmt", "", <<>>, list, <<>>)
ExprStmt(x) == Stmt("ExprStmt", "", <<x>>, <<>>, <<>>)
AssignStmt(lhs, rhs) == Stmt("AssignStmt", lhs, <<rhs>>, <<>>, <<>>)
DeferStmt(call) == Stmt("DeferStmt", "", <<call>>, <<>>, <<>>)

\* a declaration of the file: a function (or method) declaration, with or
\* without a body, or a general declaration (import, var, type)
FuncDecl(name, recv, params, results, hasBody, body) ==
    [kind |-> "FuncDecl", Name |-> name, Recv |-> recv, Params |-> params,
     Results |-> results, HasBody |-> hasBody, Body |-> body]
GenDecl(name) ==
    [kind |-> "GenDecl", Name |-> name, Recv |-> FALSE, Params |-> <<>>,
     Results |-> <<>>, HasBody |-> FALSE, Body |-> <<>>]

\* --------------------------------------------------- rewriting of returns
\* fmt.Sprintf("_ret%d", i), i counted from 0
RetName(i) == "_ret" \o ToString(i)

\* the bind-record-return block that replaces a return statement
transformReturnStmt(ret, functionName) ==
    LET n           == Len(ret.Exprs)
        assignments == [i \in 1..n |-> AssignStmt(RetName(i - 1), ret.Exprs[i])]
        newIdents   == [i \in 1..n |-> Ident(RetName(i - 1))]
        recordCall  == ExprStmt(CallExpr("tracer.RecordReturn",
                                         <<BasicLit(functionName)>> \o newIdents))
        newReturn   == ReturnStmtOf(newIdents)
    IN  BlockStmt(assignments \o <<recordCall, newReturn>>)

\* the narrowing rule: a return with a call or the identifier nil among its
\* results is left as it is
Narrowed(ret) ==
    \E i \in 1..Len(ret.Exprs) :
        \/ ret.Exprs[i].kind = "CallExpr"
        \/ ret.Exprs[i].kind = "Ident" /\ ret.Exprs[i].Name = "nil"

RECURSIVE transformReturnsInBlock(_, _)
RECURSIVE transformReturnsInStmt(_, _)

\* a block is its statement list here
transformReturnsInBlock(list, functionName) ==
    [i \in 1..Len(list) |-> transformReturnsInStmt(list[i], functionName)]

transformReturnsInStmt(s, functionName) ==
    IF s.kind = "BlockStmt"
    THEN [s EXCEPT !.List = transformReturnsInBlock(s.List, functionName)]
    ELSE IF s.kind = "IfStmt"
    THEN [s EXCEPT !.List = transformReturnsInBlock(s.List, functionName),
                   !.Else = IF s.Else # <<>>
                            THEN <<transformReturnsInStmt(s.Else[1], functionName)>>
                            ELSE <<>>]
    ELSE IF s.kind = "ForStmt"
    THEN [s EXCEPT !.List = transformReturnsInBlock(s.List, functionName)]
    ELSE IF s.kind = "ReturnStmt"
    THEN IF Narrowed(s) THEN s ELSE transformReturnStmt(s, functionName)
    ELSE s

\* ------------------------------------------------------ the injected prologue
recoverStmt(fnName) ==
    DeferStmt(FuncLit(<<
        AssignStmt("r", CallExpr("recover", <<>>)),
        Stmt("IfStmt", "", <<Ident("r != nil")>>,
             <<ExprStmt(CallExpr("tracer.RecordPanic",
                                 <<BasicLit(fnName), Ident("r"),
                                   CallExpr("string", <<CallExpr("debug.Stack", <<>>)>>)>>)),
               ExprStmt(CallExpr("panic", <<Ident("r")>>))>>,
             <<>>)>>))

deferExit(fnName) ==
    DeferStmt(CallExpr("tracer.RecordExit",
                       <<BasicLit(fnName), Ident("__tracewrap_startTime")>>))

recordEntryCall(fnName) ==
    ExprStmt(CallExpr("tracer.RecordEntry", <<BasicLit(fnName)>>))

paramLogs(params) ==
    [i \in 1..Len(params) |->
        ExprStmt(CallExpr("tracer.RecordParam",
                          <<BasicLit(params[i]),
                            CallExpr("fmt.Sprintf", <<BasicLit("%+v"), Ident(params[i])>>)>>))]

dumpCallGraphStmt ==
    ExprStmt(CallExpr("tracer.DumpCallGraphDOT", <<BasicLit("tracewrap/callgraph.dot")>>))

\* the start readings taken before the deferred blocks are registered
StartDecls ==
    <<AssignStmt("__tracewrap_startTime", CallExpr("time.Now", <<>>)),
      AssignStmt("__tracewrap_startCPUTime", CallExpr("tracer.GetProcessCPUTime", <<>>)),
      AssignStmt("__tracewrap_startGoroutines", CallExpr("runtime.NumGoroutine", <<>>)),
      AssignStmt("__tracewrap_startThreads", CallExpr("runtime.NumCgoCall", <<>>)),
      Stmt("DeclStmt", "__tracewrap_memStatsBefore", <<>>, <<>>, <<>>),
      ExprStmt(CallExpr("runtime.ReadMemStats", <<Ident("&__tracewrap_memStatsBefore")>>)),
      AssignStmt("__tracewrap_startNetUsage", CallExpr("tracer.GetNetworkUsage", <<>>)),
      AssignStmt("__tracewrap_startDiskUsage", CallExpr("tracer.GetDiskUsage", <<>>))>>

\* the deferred resource-delta block: a function literal with the seven
\* recorder calls
newDefer(fnName) ==
    DeferStmt(FuncLit(
        [k \in 1..7 |->
            ExprStmt(CallExpr(<<"tracer.RecordResourceUsage", "tracer.RecordGoroutineUsage",
                                "tracer.RecordThreadUsage", "tracer.RecordGCActivity",
                                "tracer.RecordHeapUsage", "tracer.RecordIOUsage",
                                "tracer.RecordExecutionFrequency">>[k],
                              <<BasicLit(fnName)>>))]))

newStmts(fnName) ==
    <<recoverStmt(fnName)>> \o StartDecls
        \o <<deferExit(fnName), newDefer(fnName), recordEntryCall(fnName)>>

\* ----------------------------------------------------------- instrumentFile
\* the loop body of instrumentFile: a function declaration with a body whose
\* name is not init gets the prologue and has its returns rewritten; main
\* (without receiver) first gets the call graph dump as its last statement
InstrumentDecl(d) ==
    IF d.kind = "FuncDecl" /\ d.HasBody /\ d.Name # "init"
    THEN LET body == IF d.Name = "main" /\ ~d.Recv
                     THEN Append(d.Body, dumpCallGraphStmt)
                     ELSE d.Body
         IN  [d EXCEPT !.Body =
                 transformReturnsInBlock(
                     newStmts(d.Name) \o paramLogs(d.Params) \o body, d.Name)]
    ELSE d

TracerImport == "github.com/mwiater/tracewrap/pkg/tracer"
EnsuredImports == {"time", "fmt", "runtime/debug", "runtime", TracerImport}

\* strings.HasSuffix(filePath, "main.go")
IsMainFile(path) == path = "main.go" \/ path = "cmd/main.go"

\* parse, add the imports, rewrite every declaration, add the _dummy
\* variable to a main.go, print the tree back to the same path
instrumentFile(f) ==
    [f EXCEPT !.imports = @ \cup EnsuredImports,
              !.decls = [i \in 1..Len(f.decls) |-> InstrumentDecl(f.decls[i])]
                            \o (IF IsMainFile(f.path) THEN <<GenDecl("_dummy")>> ELSE <<>>)]

\* ------------------------------------------------------------ ensureImport
\* an import spec: its path, whether the path is written as a raw string
\* literal (`time`), and whether the spec was in the file when it was parsed
\* (the specs of f.Imports)
ImportSpec(path, raw, inFile) == [path |-> path, raw |-> raw, parsed |-> inFile]

\* imp.Path.Value == "\"" + pkg + "\""
PathValueIs(spec, pkg) == ~spec.raw /\ spec.path = pkg

\* strings.Contains(imp.Path.Value, "ghost/tracer")
GhostTracer == "ghost/tracer"
ContainsGhostTracer(spec) == spec.path = GhostTracer

\* parser.ParseFile: every spec of the file is in f.Imports
ParseImports(decls) ==
    [d \in DOMAIN decls |->
        [j \in DOMAIN decls[d] |-> [decls[d][j] EXCEPT !.parsed = TRUE]]]

\* ensureImport(pkg): looked up in f.Imports; when missing, appended to the
\* first import declaration, or put into a new one at the front
ensureImport(decls, pkg) ==
    IF \E d \in DOMAIN decls : \E j \in DOMAIN decls[d] :
           decls[d][j].parsed /\ PathValueIs(decls[d][j], pkg)
    THEN decls
    ELSE IF decls # <<>>
    THEN [decls EXCEPT ![1] = Append(@, ImportSpec(pkg, FALSE, FALSE))]
    ELSE <<(<<ImportSpec(pkg, FALSE, FALSE)>>)>>

\* the loop over f.Imports that sets the path of every import containing
\* ghost/tracer to DynamicTracerImport
ReplaceGhostTracer(decls) ==
    [d \in DOMAIN decls |->
        [j \in DOMAIN decls[d] |->
            IF decls[d][j].parsed /\ ContainsGhostTracer(decls[d][j])
            THEN [decls[d][j] EXCEPT !.path = TracerImport, !.raw = FALSE]
            ELSE decls[d][j]]]

\* the import part of instrumentFile, as printed back to the file
EnsureImportsOf(decls) ==
    ReplaceGhostTracer(
        ensureImport(ensureImport(ensureImport(ensureImport(ensureImport(
            ParseImports(decls), "time"), "fmt"), "runtime/debug"), "runtime"),
            TracerImport))

\* --------------------------------------------- building the rewritten file
\* the type of an expression: n is an int parameter, g returns int, a basic
\* literal is an untyped numeric constant, a name bound by := has the type
\* recorded in tenv
TypeOf(e, tenv) ==
    IF e.kind = "Ident"
    THEN IF e.Name \in DOMAIN tenv THEN tenv[e.Name]
         ELSE IF e.Name = "nil" THEN "nil" ELSE "int"
    ELSE IF e.kind = "BasicLit" THEN "untyped"
    ELSE "int"

\* x := e gives x the default type of e
DefaultType(t) == IF t = "untyped" THEN "int" ELSE t

\* assignability of a value of type t to a result of type r
Assignable(t, r) ==
    \/ t = r
    \/ t = "untyped" /\ r \in {"int", "float64"}
    \/ t = "nil" /\ r = "error"

\* the statements list[i..] compile inside a function with these result
\* types: every return matches them, and no := redeclares a name of its
\* own scope; a nested block opens a new scope
RECURSIVE BuildsList(_, _, _, _, _)
BuildsList(list, i, tenv, scope, results) ==
    IF i > Len(list) THEN TRUE
    ELSE LET s == list[i]
         IN  IF s.kind = "AssignStmt"
             THEN /\ s.Name \notin scope
                  /\ BuildsList(list, i + 1,
                                MapPut(tenv, s.Name, DefaultType(TypeOf(s.Exprs[1], tenv))),
                                scope \cup {s.Name}, results)
             ELSE IF s.kind = "DeclStmt"
             THEN /\ s.Name \notin scope
                  /\ BuildsList(list, i + 1, tenv, scope \cup {s.Name}, results)
             ELSE IF s.kind = "ReturnStmt"
             THEN /\ Len(s.Exprs) = Len(results)
                  /\ \A k \in 1..Len(results) :
                        Assignable(TypeOf(s.Exprs[k], tenv), results[k])
                  /\ BuildsList(list, i + 1, tenv, scope, results)
             ELSE /\ BuildsList(s.List, 1, tenv, {}, results)
                  /\ BuildsList(s.Else, 1, tenv, {}, results)
                  /\ BuildsList(list, i + 1, tenv, scope, results)

\* the declaration compiles
Builds(d) ==
    (d.kind = "FuncDecl" /\ d.HasBody)
        => BuildsList(d.Body, 1, EmptyMap, {}, d.Results)

\* --------------------------------------------- running a declared function
\* an input: the argument, whether conditions hold (and loops iterate, and
\* cases are selected), and whether the work the body calls raises a fault
Inputs == [n : Values, take : BOOLEAN, fails : BOOLEAN]

\* names the engine introduces; every other expression is the program's own
EngineNames ==
    {RetName(i) : i \in 0..2}
      \cup {"r", "r != nil", "recover", "panic", "string", "debug.Stack", "time.Now",
            "runtime.NumGoroutine", "runtime.NumCgoCall", "runtime.ReadMemStats",
            "fmt.Sprintf", "tracer.GetProcessCPUTime", "tracer.GetNetworkUsage",
            "tracer.GetDiskUsage", "tracer.RecordEntry", "tracer.RecordParam",
            "tracer.RecordReturn", "tracer.RecordExit", "tracer.RecordPanic",
            "tracer.RecordResourceUsage", "tracer.RecordGoroutineUsage",
            "tracer.RecordThreadUsage", "tracer.RecordGCActivity",
            "tracer.RecordHeapUsage", "tracer.RecordIOUsage",
            "tracer.RecordExecutionFrequency", "tracer.DumpCallGraphDOT"}

\* the value of an expression: n+1, g(n) = 2n, the constant 0, a bound name
EvalExpr(e, env) ==
    IF e.kind = "Ident" THEN (IF e.Name \in DOMAIN env THEN env[e.Name] ELSE 0)
    ELSE IF e.kind = "BinaryExpr" THEN env["n"] + 1
    ELSE IF e.kind = "CallExpr" THEN env["n"] * 2
    ELSE 0

\* the evaluation of a program expression is logged
EvalLog(e) == IF e.Name \in EngineNames THEN <<>> ELSE <<e.Name>>

RECURSIVE EvalLogs(_, _)
EvalLogs(exprs, i) ==
    IF i > Len(exprs) THEN <<>> ELSE EvalLog(exprs[i]) \o EvalLogs(exprs, i + 1)

\* the state of an activation: its variables, the recovery block's r, the
\* fault in flight, the program expressions evaluated so far, the recorder
\* calls issued so far, and the deferred calls registered so far
Step(st, ctl, vals, fault) == [st |-> st, ctl |-> ctl, vals |-> vals, fault |-> fault]

RECURSIVE ExecList(_, _, _, _)
RECURSIVE ExecStmt(_, _, _)

ExecList(list, i, st, in) ==
    IF i > Len(list) THEN Step(st, "next", <<>>, NoFault)
    ELSE LET res == ExecStmt(list[i], st, in)
         IN  IF res.ctl = "next" THEN ExecList(list, i + 1, res.st, in) ELSE res

ExecStmt(s, st, in) ==
    IF s.kind = "ReturnStmt"
    THEN Step([st EXCEPT !.evals = @ \o EvalLogs(s.Exprs, 1)], "return",
              [k \in 1..Len(s.Exprs) |-> EvalExpr(s.Exprs[k], st.env)], NoFault)
    ELSE IF s.kind = "AssignStmt"
    THEN IF s.Exprs[1].Name = "recover"
         THEN Step([st EXCEPT !.r = st.fault, !.fault = NoFault], "next", <<>>, NoFault)
         ELSE Step([st EXCEPT !.env = MapPut(@, s.Name, EvalExpr(s.Exprs[1], st.env)),
                              !.evals = @ \o EvalLog(s.Exprs[1])],
                   "next", <<>>, NoFault)
    ELSE IF s.kind = "DeferStmt"
    THEN Step([st EXCEPT !.defers = Append(@, s.Exprs[1])], "next", <<>>, NoFault)
    ELSE IF s.kind = "ExprStmt"
    THEN LET x == s.Exprs[1]
         IN  IF x.Name = "work"
             THEN IF in.fails THEN Step(st, "panic", <<>>, "boom")
                  ELSE Step(st, "next", <<>>, NoFault)
             ELSE IF x.Name = "panic" THEN Step(st, "panic", <<>>, st.r)
             ELSE IF x.Name = "run"
             THEN LET res == ExecList(x.Args[1].Body, 1, st, in)
                  IN  IF res.ctl = "panic" THEN res
                      ELSE Step(res.st, "next", <<>>, NoFault)
             ELSE IF x.Name \in EngineNames /\ x.Name # "runtime.ReadMemStats"
             THEN Step([st EXCEPT !.trace = Append(@, x.Name)], "next", <<>>, NoFault)
             ELSE Step(st, "next", <<>>, NoFault)
    ELSE IF s.kind = "IfStmt"
    THEN LET cond == IF s.Exprs # <<>> /\ s.Exprs[1].Name = "r != nil"
                     THEN st.r # NoFault
                     ELSE in.take
         IN  IF cond THEN ExecList(s.List, 1, st, in) ELSE ExecList(s.Else, 1, st, in)
    ELSE IF s.kind \in {"ForStmt", "RangeStmt", "SwitchStmt", "SelectStmt"}
    THEN IF in.take THEN ExecList(s.List, 1, st, in) ELSE Step(st, "next", <<>>, NoFault)
    ELSE ExecList(s.List, 1, st, in)

\* the deferred calls run in reverse order of registration, each with the
\* fault in flight that the calls before it have left
RECURSIVE RunDefers(_, _)
RunDefers(st, in) ==
    IF st.defers = <<>> THEN st
    ELSE LET c    == Last(st.defers)
             rest == [st EXCEPT !.defers = Front(@)]
         IN  IF c.kind = "FuncLit"
             THEN LET res == ExecList(c.Body, 1, rest, in)
                  IN  RunDefers([res.st EXCEPT !.fault =
                                    IF res.ctl = "panic" THEN res.fault ELSE @], in)
             ELSE RunDefers([rest EXCEPT !.trace = Append(@, c.Name)], in)

\* what the caller of declaration d sees for this input: the values returned
\* or the fault raised, and the program expressions evaluated on the way
CallFunc(d, in) ==
    LET st0  == [env |-> [x \in {"n"} |-> in.n], r |-> NoFault, fault |-> NoFault,
                 evals |-> <<>>, trace |-> <<>>, defers |-> <<>>]
        body == ExecList(d.Body, 1, st0, in)
        fin  == RunDefers([body.st EXCEPT !.fault = body.fault], in)
    IN  [built |-> TRUE,
         fault |-> fin.fault,
         vals  |-> IF fin.fault = NoFault /\ body.ctl = "return" THEN body.vals ELSE <<>>,
         evals |-> fin.evals,
         trace |-> fin.trace]

BuildError == [built |-> FALSE, fault |-> NoFault, vals |-> <<>>, evals |-> <<>>,
               trace |-> <<>>]

\* the declaration carries the injected prologue
Instrumented(d) ==
    \E i \in DOMAIN d.Body : d.Body[i] = recordEntryCall(d.Name)

\* the packages the injected code of a declaration refers to
InjectedUses(d) ==
    IF d.kind = "GenDecl" /\ d.Name = "_dummy" THEN {"fmt"}
    ELSE IF ~Instrumented(d) THEN {}
    ELSE {"time", "runtime", "runtime/debug", TracerImport}
             \cup (IF \E i \in DOMAIN d.Body :
                         /\ d.Body[i].kind = "ExprStmt"
                         /\ d.Body[i].Exprs[1].Name = "tracer.RecordParam"
                   THEN {"fmt"} ELSE {})

\* go build of the file: every declaration compiles, no package-level name
\* is declared twice, and every import is used
FileBuilds(f) ==
    /\ \A i \in DOMAIN f.decls : Builds(f.decls[i])
    /\ \A i, j \in DOMAIN f.decls :
          (i # j /\ f.decls[i].kind = "GenDecl" /\ f.decls[j].kind = "GenDecl")
              => f.decls[i].Name # f.decls[j].Name
    /\ f.imports \subseteq
          f.uses \cup UNION {InjectedUses(f.decls[i]) : i \in DOMAIN f.decls}

\* go build, then a call of the i-th declaration
Outcome(f, i, in) == IF FileBuilds(f) THEN CallFunc(f.decls[i], in) ELSE BuildError

\* ------------------------------------------------------- the source files
\* a file: its path, its imports, the packages its own code refers to, and
\* its declarations
SourceFile(path, imports, decls) ==
    [path |-> path, imports |-> imports, uses |-> imports, decls |-> decls]
NoFile == SourceFile("", {}, <<>>)

RetBinary == ReturnStmtOf(<<Expr("BinaryExpr", "n+1", <<>>, <<>>)>>)
RetConst  == ReturnStmtOf(<<BasicLit("0")>>)
RetCall   == ReturnStmtOf(<<CallExpr("g", <<Ident("n")>>)>>)
RetNil    == ReturnStmtOf(<<Ident("n"), Ident("nil")>>)
RetBare   == ReturnStmtOf(<<>>)
OtherStmt == ExprStmt(CallExpr("work", <<>>))
Leaves    == {RetBinary, RetConst, RetCall, RetNil, RetBare, OtherStmt}

WrapKinds == {"IfStmt", "IfElse", "ElseIf", "ForStmt", "RangeStmt", "SwitchStmt",
              "SelectStmt", "BlockStmt", "LabeledStmt", "FuncLit"}

\* statement s inside a control statement, or inside a function literal
Wrap(k, s) ==
    IF k = "IfElse"
    THEN Stmt("IfStmt", "", <<>>, <<OtherStmt>>, <<BlockStmt(<<s>>)>>)
    ELSE IF k = "ElseIf"
    THEN Stmt("IfStmt", "", <<>>, <<OtherStmt>>, <<Stmt("IfStmt", "", <<>>, <<s>>, <<>>)>>)
    ELSE IF k = "SwitchStmt"
    THEN Stmt("SwitchStmt", "", <<>>, <<Stmt("CaseClause", "", <<>>, <<s>>, <<>>)>>, <<>>)
    ELSE IF k = "SelectStmt"
    THEN Stmt("SelectStmt", "", <<>>, <<Stmt("CommClause", "", <<>>, <<s>>, <<>>)>>, <<>>)
    ELSE IF k = "FuncLit"
    THEN ExprStmt(CallExpr("run", <<FuncLit(<<s>>)>>))
    ELSE Stmt(k, "", <<>>, <<s>>, <<>>)

RECURSIVE Nest(_)
Nest(d) ==
    IF d = 0 THEN Leaves
    ELSE Nest(d - 1) \cup {Wrap(k, s) : k \in WrapKinds, s \in Nest(d - 1)}

FuncNames == {"f", "init", "main"}
ParamsOf(name) == IF name = "f" THEN <<"n">> ELSE <<>>
ResultsOf(name) ==
    IF name = "f" THEN {<<>>, <<"int">>, <<"float64">>, <<"int", "error">>} ELSE {<<>>}

\* the declarations of the program: functions and methods that compile
Decls ==
    UNION {{d \in {FuncDecl(name, recv, ParamsOf(name), res, TRUE, <<s>>) :
                      recv \in BOOLEAN, res \in ResultsOf(name), s \in Nest(MaxNest)} :
               Builds(d)} : name \in FuncNames}

SmallDecls ==
    {FuncDecl(name, recv, ParamsOf(name), <<>>, TRUE, <<OtherStmt>>) :
        name \in FuncNames, recv \in BOOLEAN}
      \cup {FuncDecl("f", FALSE, <<"n">>, <<"int">>, FALSE, <<>>), GenDecl("x")}

SourceFiles ==
    {SourceFile("util.go", {"fmt"}, <<d>>) : d \in Decls}
      \cup {SourceFile(p, imp, <<d, e>>) :
               p \in {"main.go", "util.go"}, imp \in {{}, {"fmt"}},
               d \in SmallDecls, e \in SmallDecls}

\* ----------------------------------------------------- the engine at work
\* the traced program has not been built
NoProgram ==
    /\ traceRecords = <<>>
    /\ callStack = <<>>
    /\ uniqueID = 0
    /\ execFrequency = [fn \in Funcs |-> 0]
    /\ nUnits = 1
    /\ frames = [u \in Units |-> <<>>]
    /\ ustate = [u \in Units |-> "idle"]
    /\ proc = "none"
    /\ recovered = FALSE
    /\ act = <<>>
    /\ callgraph = NoGraph

\* one run of the engine over the file
InstrumentFile ==
    /\ runs < MaxRuns
    /\ ~outcome.ran
    /\ file' = instrumentFile(file)
    /\ importDecls' = EnsureImportsOf(importDecls)
    /\ runs' = runs + 1
    /\ UNCHANGED <<hostVars, runVars, walkVars, cmdVars, orig, outcome>>

\* after one run of the engine: the original and the rewritten file are each
\* built, and the i-th function of each is called with the same input
Execute(i, in) ==
    /\ runs = 1
    /\ ~outcome.ran
    /\ i \in DOMAIN orig.decls
    /\ orig.decls[i].kind = "FuncDecl" /\ orig.decls[i].HasBody
    /\ outcome' = [ran  |-> TRUE,
                   decl |-> i,
                   in   |-> in,
                   orig |-> Outcome(orig, i, in),
                   inst |-> Outcome(file, i, in)]
    /\ UNCHANGED <<hostVars, runVars, walkVars, cmdVars, file, orig, runs, importDecls>>

InitEngine ==
    /\ NoProgram
    /\ \E f \in SourceFiles : file = f /\ orig = f
    /\ runs = 0
    /\ outcome = NoOutcome
    /\ importDecls = IF "fmt" \in file.imports
                     THEN <<(<<ImportSpec("fmt", FALSE, FALSE)>>)>> ELSE <<>>
    /\ WalkIdle
    /\ CmdIdle
    /\ HostIdle

NextEngine ==
    \/ InstrumentFile
    \/ \E i \in 1..2, in \in Inputs : Execute(i, in)
SpecEngine == InitEngine /\ [][NextEngine]_vars

\* ========================================================= the workspace walk
\* paths and patterns are sequences of characters
Tracer == <<"t", "r", "a", "c", "e", "r">>
DotGo  == <<".", "g", "o">>
Slash  == <<"/">>

\* strings.HasPrefix
HasPrefix(s, prefix) ==
    Len(s) >= Len(prefix) /\ SubSeq(s, 1, Len(prefix)) = prefix

\* filepath.Ext: the suffix of the last path element from its last dot on
Ext(path) ==
    LET dots == {i \in DOMAIN path :
                    path[i] = "." /\ \A j \in i..Len(path) : path[j] # "/"}
    IN  IF dots = {} THEN <<>>
        ELSE SubSeq(path, CHOOSE i \in dots : \A j \in dots : j <= i, Len(path))

\* filepath.Match reports ErrBadPattern for a malformed pattern: here a
\* character class that is never closed
BadPattern(pattern) ==
    \E i \in DOMAIN pattern :
        pattern[i] = "[" /\ \A j \in i..Len(pattern) : pattern[j] # "]"

\* filepath.Match for patterns of literal characters and '*': a star stands
\* for any run of characters other than the separator
RECURSIVE Match(_, _)
Match(pattern, name) ==
    IF pattern = <<>> THEN name = <<>>
    ELSE IF Head(pattern) = "*"
    THEN \E k \in 0..Len(name) :
            /\ \A j \in 1..k : name[j] # "/"
            /\ Match(Tail(pattern), SubSeq(name, k + 1, Len(name)))
    ELSE /\ name # <<>>
         /\ Head(name) = Head(pattern)
         /\ Match(Tail(pattern), Tail(name))

\* an entry of the workspace tree: its path relative to the workspace, and
\* whether it is a directory
Entry(rel, isDir) == [rel |-> rel, isDir |-> isDir]

\* the workspace, in the lexical order in which filepath.Walk visits it:
\*   .  a.go  b.txt  p/  p/tracer/  p/tracer/t.go  p/u.go
\*   tracer/  tracer/r.go  tracerx.go
Tree ==
    <<Entry(<<".">>, TRUE),
      Entry(<<"a">> \o DotGo, FALSE),
      Entry(<<"b", ".", "t", "x", "t">>, FALSE),
      Entry(<<"p">>, TRUE),
      Entry(<<"p">> \o Slash \o Tracer, TRUE),
      Entry(<<"p">> \o Slash \o Tracer \o Slash \o <<"t">> \o DotGo, FALSE),
      Entry(<<"p">> \o Slash \o <<"u">> \o DotGo, FALSE),
      Entry(Tracer, TRUE),
      Entry(Tracer \o Slash \o <<"r">> \o DotGo, FALSE),
      Entry(Tracer \o <<"x">> \o DotGo, FALSE)>>

\* cfg.Instrumentation.Exclude: no pattern, *.go, p/*, a.go after p/*, and a
\* malformed pattern
ExcludeConfigs ==
    {<<>>,
     <<<<"*">> \o DotGo>>,
     <<<<"p", "/", "*">>>>,
     <<<<"p", "/", "*">>, <<"a">> \o DotGo>>,
     <<<<"[", "a">>>>}

GoFiles == {i \in DOMAIN Tree : ~Tree[i].isDir /\ Ext(Tree[i].rel) = DotGo}

\* what every source file of the workspace holds before the walk
FileContent == SourceFile("util.go", {"fmt"},
                          <<FuncDecl("f", FALSE, <<"n">>, <<"int">>, TRUE, <<RetBinary>>)>>)

\* the entries below directory i: Walk skips them on filepath.SkipDir
Below(i) == {j \in DOMAIN Tree : j > i /\ HasPrefix(Tree[j].rel, Tree[i].rel \o Slash)}

\* the entry Walk visits after entry i, with or without its subtree
NextEntry(i, skipDir) ==
    IF skipDir
    THEN CHOOSE j \in (i + 1)..(Len(Tree) + 1) :
            /\ j \notin Below(i)
            /\ \A k \in (i + 1)..(j - 1) : k \in Below(i)
    ELSE i + 1

\* the loop over the exclude patterns for path rel, from pattern k on:
\* "error" at a malformed pattern, "skip" at a matching one, else "none"
RECURSIVE ExcludeLoop(_, _, _)
ExcludeLoop(exclude, k, rel) ==
    IF k > Len(exclude) THEN "none"
    ELSE IF BadPattern(exclude[k]) THEN "error"
    ELSE IF Match(exclude[k], rel) THEN "skip"
    ELSE ExcludeLoop(exclude, k + 1, rel)

NoErr == [path |-> <<>>, cause |-> ""]

\* faulty variant: the callback reports a file that does not parse and goes on
OnInstrumentErrorContinue(e) ==
    [ret |-> "nil", parsed |-> TRUE, created |-> FALSE, err |-> NoErr]

\* instrumentFile fails at the parser, before the file is opened for writing;
\* the callback returns the error with the file's path and the cause
OnInstrumentError(e) ==
    [ret |-> "error", parsed |-> TRUE, created |-> FALSE,
     err |-> [path |-> e.rel, cause |-> "parsing error"]]

\* the callback InstrumentWorkspace hands to filepath.Walk, for entry i: what
\* it returns ("nil", "SkipDir" or "error"), whether it parsed the file,
\* whether it opened the file for writing, and the error it returns
walkFn(i) ==
    LET e == Tree[i]
    IN  IF i \in ws.unreadable
        THEN [ret |-> "error", parsed |-> FALSE, created |-> FALSE,
              err |-> [path |-> <<>>, cause |-> "lstat"]]
        ELSE IF HasPrefix(e.rel, Tracer)
        THEN [ret |-> IF e.isDir THEN "SkipDir" ELSE "nil",
              parsed |-> FALSE, created |-> FALSE, err |-> NoErr]
        ELSE IF ~e.isDir /\ Ext(e.rel) = DotGo
        THEN LET x == ExcludeLoop(ws.exclude, 1, e.rel)
             IN  IF x = "error"
                 THEN [ret |-> "error", parsed |-> FALSE, created |-> FALSE,
                       err |-> [path |-> <<>>, cause |-> "error matching pattern"]]
                 ELSE IF x = "skip"
                 THEN [ret |-> "nil", parsed |-> FALSE, created |-> FALSE, err |-> NoErr]
                 ELSE IF i \in ws.broken
                 THEN OnInstrumentError(e)
                 ELSE [ret |-> "nil", parsed |-> TRUE, created |-> TRUE, err |-> NoErr]
        ELSE [ret |-> "nil", parsed |-> FALSE, created |-> FALSE, err |-> NoErr]

\* filepath.Walk calls the callback for the next entry; an error ends the
\* walk, and InstrumentWorkspace returns it
Visit ==
    /\ walk = "walking"
    /\ LET out == walkFn(pos)
           nxt == NextEntry(pos, out.ret = "SkipDir")
       IN  /\ parsed' = IF out.parsed THEN Append(parsed, pos) ELSE parsed
           /\ created' = IF out.created THEN [created EXCEPT ![pos] = @ + 1] ELSE created
           /\ content' = IF out.created
                         THEN [content EXCEPT ![pos] = instrumentFile(@)]
                         ELSE content
           /\ visited' = Append(visited, pos)
           /\ walkErr' = out.err
           /\ walk' = IF out.ret = "error" THEN "failed"
                      ELSE IF nxt > Len(Tree) THEN "done" ELSE "walking"
           /\ pos' = IF out.ret = "error" THEN pos ELSE nxt
    /\ UNCHANGED <<hostVars, runVars, engineVars, cmdVars, ws>>

\* a workspace: which files do not parse, which entries cannot be read, and
\* the exclude patterns of the configuration
InitWalk ==
    /\ NoProgram
    /\ EngineIdle
    /\ CmdIdle
    /\ HostIdle
    /\ \E broken \in SUBSET GoFiles, unreadable \in SUBSET {3}, exclude \in ExcludeConfigs :
          ws = [broken |-> broken, unreadable |-> unreadable, exclude |-> exclude]
    /\ pos = 1
    /\ walk = "walking"
    /\ visited = <<>>
    /\ parsed = <<>>
    /\ created = [i \in DOMAIN Tree |-> 0]
    /\ content = [i \in DOMAIN Tree |-> FileContent]
    /\ walkErr = NoErr

NextWalk == Visit
SpecWalk == InitWalk /\ [][NextWalk]_vars

\* ================================================ buildTracedApplication
\* the steps of the command, in the order of its code
Steps == <<"prepare", "config", "instrument", "build", "run">>

\* the command at its start: whether --project and --name were given
CmdStart(project, name) ==
    [pc |-> "start", project |-> project, name |-> name,
     started |-> <<>>, failed |-> "none", exit |-> -1]

\* os.Exit(status)
CmdExit(c, status) == [c EXCEPT !.pc = "exited", !.exit = status]

\* a step has failed: the error is printed and the command exits with 1
CmdFail(c, step) == CmdExit([c EXCEPT !.failed = step], 1)

\* faulty variant: the error of the walk is printed and the build goes on
AfterInstrumentIgnoreError(c, w) == [c EXCEPT !.pc = "build"]

\* err = instrument.InstrumentWorkspace(...); if err != nil { ...; os.Exit(1) }
AfterInstrument(c, w) ==
    IF w = "failed" THEN CmdFail(c, "instrument") ELSE [c EXCEPT !.pc = "build"]

\* if projectDir == "" { ...; os.Exit(1) }
CmdCheckProject ==
    /\ cmd.pc = "start"
    /\ cmd' = IF cmd.project THEN [cmd EXCEPT !.pc = "resolve"] ELSE CmdExit(cmd, 1)
    /\ UNCHANGED <<hostVars, runVars, engineVars, walkVars>>

\* filepath.Abs and os.Stat of the project directory
CmdResolve(ok) ==
    /\ cmd.pc = "resolve"
    /\ cmd' = IF ok THEN [cmd EXCEPT !.pc = "prepare"] ELSE CmdFail(cmd, "resolve")
    /\ UNCHANGED <<hostVars, runVars, engineVars, walkVars>>

\* instrument.PrepareWorkspace: the project is copied to the workspace
CmdPrepareWorkspace(ok, broken, unreadable) ==
    /\ cmd.pc = "prepare"
    /\ LET c == [cmd EXCEPT !.started = Append(@, "prepare")]
       IN  IF ok
           THEN /\ cmd' = [c EXCEPT !.pc = "config"]
                /\ ws' = [ws EXCEPT !.broken = broken, !.unreadable = unreadable]
                /\ created' = [i \in DOMAIN Tree |-> 0]
                /\ content' = [i \in DOMAIN Tree |-> FileContent]
           ELSE /\ cmd' = CmdFail(c, "prepare")
                /\ UNCHANGED <<ws, created, content>>
    /\ UNCHANGED <<hostVars, runVars, engineVars, pos, walk, visited, parsed, walkErr>>

\* config.LoadConfig
CmdLoadConfig(ok, exclude) ==
    /\ cmd.pc = "config"
    /\ LET c == [cmd EXCEPT !.started = Append(@, "config")]
       IN  IF ok
           THEN /\ cmd' = [c EXCEPT !.pc = "import"]
                /\ ws' = [ws EXCEPT !.exclude = exclude]
           ELSE /\ cmd' = CmdFail(c, "config")
                /\ UNCHANGED ws
    /\ UNCHANGED <<hostVars, runVars, engineVars, pos, walk, visited, parsed, created, content, walkErr>>

\* instrument.SetDynamicTracerImport never fails; then InstrumentWorkspace
\* starts its walk
CmdInstrument ==
    /\ cmd.pc = "import"
    /\ cmd' = [cmd EXCEPT !.pc = "instrument", !.started = Append(@, "instrument")]
    /\ walk' = "walking"
    /\ UNCHANGED <<hostVars, runVars, engineVars, ws, pos, visited, parsed, created, content, walkErr>>

\* InstrumentWorkspace has returned
CmdInstrumented ==
    /\ cmd.pc = "instrument"
    /\ walk \in {"done", "failed"}
    /\ cmd' = AfterInstrument(cmd, walk)
    /\ UNCHANGED <<hostVars, runVars, engineVars, walkVars>>

\* instrument.BuildInstrumentedBinary
CmdBuild(ok) ==
    /\ cmd.pc = "build"
    /\ LET c == [cmd EXCEPT !.started = Append(@, "build")]
       IN  cmd' = IF ok THEN [c EXCEPT !.pc = IF cmd.name THEN "move" ELSE "run"]
                  ELSE CmdFail(c, "build")
    /\ UNCHANGED <<hostVars, runVars, engineVars, walkVars>>

\* with --name: os.MkdirAll and os.Rename of the binary
CmdMove(ok) ==
    /\ cmd.pc = "move"
    /\ cmd' = IF ok THEN [cmd EXCEPT !.pc = "run"] ELSE CmdFail(cmd, "move")
    /\ UNCHANGED <<hostVars, runVars, engineVars, walkVars>>

\* instrument.RunInstrumentedBinary; the command then ends with status 0
CmdRun(ok) ==
    /\ cmd.pc = "run"
    /\ LET c == [cmd EXCEPT !.started = Append(@, "run")]
       IN  cmd' = IF ok THEN CmdExit(c, 0) ELSE CmdFail(c, "run")
    /\ UNCHANGED <<hostVars, runVars, engineVars, walkVars>>

InitCmd ==
    /\ NoProgram
    /\ EngineIdle
    /\ WalkIdle
    /\ HostIdle
    /\ \E project \in BOOLEAN, name \in BOOLEAN : cmd = CmdStart(project, name)

NextCmd ==
    \/ CmdCheckProject
    \/ \E ok \in BOOLEAN : CmdResolve(ok)
    \/ \E ok \in BOOLEAN, broken \in SUBSET GoFiles, unreadable \in SUBSET {3} :
          CmdPrepareWorkspace(ok, broken, unreadable)
    \/ \E ok \in BOOLEAN, exclude \in ExcludeConfigs : CmdLoadConfig(ok, exclude)
    \/ CmdInstrument
    \/ Visit
    \/ CmdInstrumented
    \/ \E ok \in BOOLEAN : CmdBuild(ok)
    \/ \E ok \in BOOLEAN : CmdMove(ok)
    \/ \E ok \in BOOLEAN : CmdRun(ok)

SpecCmd == InitCmd /\ [][NextCmd]_vars

\* ===================================================== imports of a file
ImportPaths == {"time", "fmt", "os", GhostTracer, TracerImport}

\* the import declarations of a file that compiles: no path twice, and not
\* two packages named tracer; written as one grouped declaration or as one
\* declaration per spec
ImportLists ==
    UNION {{s \in [1..n -> [path : ImportPaths, raw : BOOLEAN, parsed : {FALSE}]] :
                /\ \A i, j \in 1..n : s[i].path = s[j].path => i = j
                /\ ~\E i, j \in 1..n : s[i].path = GhostTracer /\ s[j].path = TracerImport} :
              n \in 0..MaxImports}

\* the engine is run over files with any such imports (and no function)
InitImports ==
    /\ NoProgram
    /\ runs = 0
    /\ outcome = NoOutcome
    /\ \E s \in ImportLists, grouped \in BOOLEAN :
          /\ importDecls = IF grouped /\ s # <<>> THEN <<s>>
                           ELSE [d \in DOMAIN s |-> <<s[d]>>]
          /\ file = SourceFile("util.go", {s[i].path : i \in DOMAIN s}, <<>>)
          /\ orig = file
    /\ WalkIdle /\ CmdIdle /\ HostIdle

NextImports == InstrumentFile

SpecImports == InitImports /\ [][NextImports]_vars

\* ====================================================== DumpCallGraphDOT
\* aggregate lists: up to MaxIds records with distinct ids, each with any
\* caller id or none
Aggregates ==
    UNION {{s \in [1..n -> [id : 1..MaxIds, caller : 0..MaxIds]] :
                \A i, j \in 1..n : s[i].id = s[j].id => i = j} : n \in 0..MaxIds}

RecordOf(e) == [NewRecord(e.id, "f") EXCEPT !.CallerID = e.caller]

\* the package is called with the aggregate list in any such state
InitDot ==
    /\ \E s \in Aggregates : traceRecords = [i \in DOMAIN s |-> RecordOf(s[i])]
    /\ callStack = <<>>
    /\ uniqueID = MaxIds
    /\ execFrequency = [fn \in Funcs |-> 0]
    /\ nUnits = 1
    /\ frames = [u \in Units |-> <<>>]
    /\ ustate = [u \in Units |-> "idle"]
    /\ proc = "none"
    /\ recovered = FALSE
    /\ act = <<>>
    /\ callgraph = NoGraph
    /\ ToolsIdle

\* a direct call of DumpCallGraphDOT
DumpAggregate ==
    /\ proc = "none" /\ ~callgraph.written
    /\ callgraph' = DumpCallGraphDOT(traceRecords)
    /\ UNCHANGED <<toolVars, recorderVars, nUnits, proc, ustate, recovered, act, frames>>

NextDot == DumpAggregate

SpecDot == InitDot /\ [][NextDot]_vars

\* ============================================ the recorder's time and memory
\* RecordEntry's literal with the two readings it takes
TimedRecord(id, functionName, now, alloc) ==
    NewRecord(id, functionName)
        @@ [EntryTime |-> now, ExitTime |-> 0, Duration |-> 0,
            MemBefore |-> alloc, MemAfter |-> 0, MemDiff |-> 0]

MemValues == 0..(2^MemBits - 1)

\* faulty variant: the exit time is the start reading the caller passes
ExitTimeFromStart(now, startTime) == startTime

\* top.ExitTime = time.Now(): the startTime argument is not used
ExitTimeOf(now, startTime) == now

\* t.Sub(u)
Sub(t, u) == t - u

\* faulty variant: the unsigned subtraction without the comparison
MemDiffWrapping(after, before) == (after - before) % 2^MemBits

\* if top.MemAfter > top.MemBefore { MemAfter - MemBefore } else { 0 }, in
\* unsigned arithmetic
MemDiffOf(after, before) ==
    IF after > before THEN (after - before) % 2^MemBits ELSE 0

\* the clock advances
Tick ==
    /\ proc = "metered"
    /\ clock < MaxClock
    /\ clock' = clock + 1
    /\ UNCHANGED <<runVars, engineVars, walkVars, cmdVars, mem, art, staging, lockVars>>

\* the program allocates or the collector frees: the heap reading changes
Alloc(m) ==
    /\ proc = "metered"
    /\ m # mem
    /\ mem' = m
    /\ UNCHANGED <<runVars, engineVars, walkVars, cmdVars, clock, art, staging, lockVars>>

\* RecordEntry with its readings, called by any goroutine
TimedEntry(functionName) ==
    /\ proc = "metered"
    /\ uniqueID < MaxTimed
    /\ LET id     == NextID(uniqueID)
           record == [TimedRecord(id, functionName, clock, mem)
                         EXCEPT !.CallerID = CallerIDOf(callStack, id)]
       IN  /\ uniqueID' = id
           /\ callStack' = Append(callStack, record)
    /\ UNCHANGED <<toolVars, traceRecords, execFrequency, frames, nUnits, proc,
                   ustate, recovered, act, callgraph>>

\* RecordExit with its readings, called by any goroutine with the start
\* time it took in its prologue
TimedExit(functionName, startTime) ==
    /\ proc = "metered"
    /\ startTime <= clock
    /\ IF Len(callStack) > 0
       THEN LET top  == Top(callStack)
                exit == ExitTimeOf(clock, startTime)
                fin  == [top EXCEPT !.ExitTime = exit,
                                    !.Duration = Sub(exit, top.EntryTime),
                                    !.MemAfter = mem,
                                    !.MemDiff = MemDiffOf(mem, top.MemBefore)]
            IN  /\ callStack' = Pop(callStack)
                /\ traceRecords' = Aggregate(traceRecords, fin)
       ELSE UNCHANGED <<callStack, traceRecords>>
    /\ UNCHANGED <<toolVars, uniqueID, execFrequency, frames, nUnits, proc,
                   ustate, recovered, act, callgraph>>

InitTimed ==
    /\ traceRecords = <<>>
    /\ callStack = <<>>
    /\ uniqueID = 0
    /\ execFrequency = [fn \in Funcs |-> 0]
    /\ nUnits = MaxUnits
    /\ frames = [u \in Units |-> <<>>]
    /\ ustate = [u \in Units |-> "idle"]
    /\ proc = "metered"
    /\ recovered = FALSE
    /\ act = <<>>
    /\ callgraph = NoGraph
    /\ EngineIdle /\ WalkIdle /\ CmdIdle
    /\ clock = 0
    /\ mem \in MemValues
    /\ art = NoArtifacts
    /\ staging = NoStaging
    /\ LockIdle

NextTimed ==
    \/ Tick
    \/ \E m \in MemValues : Alloc(m)
    \/ TimedEntry("processJob")
    \/ \E startTime \in 0..MaxClock : TimedExit("processJob", startTime)

SpecTimed == InitTimed /\ [][NextTimed]_vars

\* ================================================= the artifacts of a run
\* a line handed to a logger: the standard logger (log.Println) or the
\* package's logger
Line(via, text) == [via |-> via, text |-> text]

\* logger.Printf: io.MultiWriter writes to os.Stdout, then to the log file;
\* the log package drops the error of the write
LoggerWrite(a, text, fileFails) ==
    [a EXCEPT !.lines = Append(@, Line(a.logger, text)),
              !.lost = IF a.logger = "multi" /\ fileFails THEN @ + 1 ELSE @]

\* the tracer package's init
TracerInitOf(a, dirFails, openFails) ==
    LET a1 == IF dirFails
              THEN [a EXCEPT !.dirFailed = TRUE,
                             !.lines = Append(@, Line("log", "Error creating log directory"))]
              ELSE a
        a2 == IF openFails
              THEN [a1 EXCEPT !.openFailed = TRUE,
                              !.lines = Append(@, Line("log", "Error opening log file")),
                              !.logger = "stdout"]
              ELSE [a1 EXCEPT !.logger = "multi"]
    IN  [a2 EXCEPT !.pc = "entry"]

\* os.WriteFile failed: DumpCallGraphDOT returns the error, and the
\* statement the engine appended to main drops it
DumpFailure(a) == [a EXCEPT !.dotFailed = TRUE]

\* the program starts: package initialization; without the directory the
\* log file cannot be opened either
TracerInit(dirFails, openFails) ==
    /\ art.pc = "start"
    /\ dirFails => openFails
    /\ art' = TracerInitOf(art, dirFails, openFails)
    /\ UNCHANGED <<runVars, engineVars, walkVars, cmdVars, clock, mem, staging, lockVars>>

\* main's RecordEntry logs its line
MainEntry(fileFails) ==
    /\ art.pc = "entry"
    /\ art' = [LoggerWrite(art, "Entering main", fileFails)
                  EXCEPT !.pc = "body", !.flow = Append(@, "entry")]
    /\ UNCHANGED <<runVars, engineVars, walkVars, cmdVars, clock, mem, staging, lockVars>>

\* an original statement of main: a call of an instrumented function, whose
\* recorder calls log their lines
MainCall(fileFails) ==
    /\ art.pc = "body"
    /\ Len(art.flow) <= MaxCalls
    /\ art' = [LoggerWrite(art, "Entering f, Exiting f", fileFails)
                  EXCEPT !.flow = Append(@, "call")]
    /\ UNCHANGED <<runVars, engineVars, walkVars, cmdVars, clock, mem, staging, lockVars>>

\* the last statement of main: tracer.DumpCallGraphDOT("tracewrap/callgraph.dot")
MainDump(writeFails, fileFails) ==
    /\ art.pc = "body"
    /\ LET a1 == LoggerWrite(art, "Generating DOT", fileFails)
           a2 == IF writeFails THEN DumpFailure(a1)
                 ELSE LoggerWrite(a1, "Call graph written", fileFails)
       IN  art' = [a2 EXCEPT !.pc = "exit", !.flow = Append(@, "dump")]
    /\ UNCHANGED <<runVars, engineVars, walkVars, cmdVars, clock, mem, staging, lockVars>>

\* main's deferred RecordExit logs its lines; main returns and the program
\* ends with status 0
MainExit(fileFails) ==
    /\ art.pc = "exit"
    /\ art' = [LoggerWrite(art, "Exiting main", fileFails)
                  EXCEPT !.pc = "exited", !.flow = Append(@, "exit"), !.exit = 0]
    /\ UNCHANGED <<runVars, engineVars, walkVars, cmdVars, clock, mem, staging, lockVars>>

InitArtifacts ==
    /\ NoProgram
    /\ EngineIdle /\ WalkIdle /\ CmdIdle
    /\ clock = 0 /\ mem = 0
    /\ staging = NoStaging
    /\ art = [NoArtifacts EXCEPT !.pc = "start"]
    /\ LockIdle

NextArtifacts ==
    \/ \E dirFails \in BOOLEAN, openFails \in BOOLEAN : TracerInit(dirFails, openFails)
    \/ \E fileFails \in BOOLEAN : MainEntry(fileFails)
    \/ \E fileFails \in BOOLEAN : MainCall(fileFails)
    \/ \E writeFails \in BOOLEAN, fileFails \in BOOLEAN : MainDump(writeFails, fileFails)
    \/ \E fileFails \in BOOLEAN : MainExit(fileFails)

SpecArtifacts == InitArtifacts /\ [][NextArtifacts]_vars

\* ======================================================= PrepareWorkspace
\* an entry of the project directory: its path relative to the project, its
\* base name, the index of its parent directory (0 for the root), and for a
\* file its content
Node(rel, base, parent, isDir, data) ==
    [rel |-> rel, base |-> base, parent |-> parent, isDir |-> isDir, data |-> data]

Contents == {"x", "y"}

\* project directories in the order filepath.Walk visits them (lexical);
\* the top-level entry tracewrap is a directory of earlier artifacts or a
\* plain file
Projects ==
    {<<Node(".", ".", 0, TRUE, ""),
       Node("a.go", "a.go", 1, FALSE, c[1]),
       Node("sub", "sub", 1, TRUE, ""),
       Node("sub/b.txt", "b.txt", 3, FALSE, c[2]),
       Node("sub/tracewrap", "tracewrap", 3, TRUE, ""),
       Node("sub/tracewrap/c.log", "c.log", 5, FALSE, c[3]),
       Node("tracewrap", "tracewrap", 1, topIsDir, IF topIsDir THEN "" ELSE c[4]),
       Node("tracewrap/callgraph.dot", "callgraph.dot", IF topIsDir THEN 7 ELSE 1,
            FALSE, c[4]),
       Node("tracewrapper.go", "tracewrapper.go", 1, FALSE, c[4])>> :
          c \in [1..4 -> Contents], topIsDir \in BOOLEAN}

\* entry j lies below directory i
RECURSIVE Under(_, _, _)
Under(tree, j, i) ==
    IF tree[j].parent = 0 THEN FALSE
    ELSE tree[j].parent = i \/ Under(tree, tree[j].parent, i)

\* the entries that exist: with tracewrap a plain file nothing lies below it
Exists(tree, j) == ~\E i \in DOMAIN tree : Under(tree, j, i) /\ ~tree[i].isDir

\* faulty variant: every directory named tracewrap is skipped
SkippedByName(e) == e.isDir /\ e.base = "tracewrap"

\* if info.IsDir() && relPath == "tracewrap" { return filepath.SkipDir }
Skipped(e) == e.isDir /\ e.rel = "tracewrap"

\* copyDir: the walk from entry i on, with the target directory as it is so
\* far; the first error ends the walk
RECURSIVE copyDir(_, _, _, _)
copyDir(tree, i, unreadable, dst) ==
    IF i > Len(tree) THEN [err |-> FALSE, dst |-> dst]
    ELSE LET e    == tree[i]
             next == IF Skipped(e)
                     THEN CHOOSE n \in (i + 1)..(Len(tree) + 1) :
                             /\ \A j \in (i + 1)..(n - 1) : Under(tree, j, i)
                             /\ n <= Len(tree) => ~Under(tree, n, i)
                     ELSE i + 1
         IN  IF ~Exists(tree, i) THEN copyDir(tree, i + 1, unreadable, dst)
             ELSE IF Skipped(e) THEN copyDir(tree, next, unreadable, dst)
             ELSE IF e.isDir
             THEN copyDir(tree, next, unreadable,
                          dst \cup {[rel |-> e.rel, isDir |-> TRUE, data |-> ""]})
             ELSE IF i \in unreadable THEN [err |-> TRUE, dst |-> dst]
             ELSE copyDir(tree, next, unreadable,
                          dst \cup {[rel |-> e.rel, isDir |-> FALSE, data |-> e.data]})

\* PrepareWorkspace(projectDir): os.MkdirTemp gives a new empty directory,
\* copyDir fills it; an error of either is returned with no path
PrepareWorkspace(mkdirFails) ==
    /\ staging.returned = "none"
    /\ staging.project # <<>>
    /\ IF mkdirFails
       THEN staging' = [staging EXCEPT !.returned = "error"]
       ELSE LET res == copyDir(staging.project, 1, staging.unreadable, {})
            IN  staging' = [staging EXCEPT
                               !.workspace = res.dst,
                               !.returned = IF res.err THEN "error" ELSE "tempDir"]
    /\ UNCHANGED <<runVars, engineVars, walkVars, cmdVars, clock, mem, art, lockVars>>

InitStaging ==
    /\ NoProgram
    /\ EngineIdle /\ WalkIdle /\ CmdIdle
    /\ clock = 0 /\ mem = 0 /\ art = NoArtifacts
    /\ LockIdle
    /\ \E p \in Projects, u \in SUBSET {4, 8} :
          staging = [NoStaging EXCEPT !.project = p, !.before = p, !.unreadable = u]

NextStaging == \E mkdirFails \in BOOLEAN : PrepareWorkspace(mkdirFails)

SpecStaging == InitStaging /\ [][NextStaging]_vars

\* ===================================== the recorder, statement by statement
\* The goroutines of a traced program call the recorder's functions, each
\* of which runs statement by statement.  Here callStack and traceRecords
\* hold what they hold in the code, pointers to records ([]*TraceRecord): a
\* pointer is the index of its record in heap, and 0 is no record.
Threads == 1..MaxThreads

\* the functions writing to the record atop the stack
TopWriters ==
    {"RecordParam", "RecordReturn", "RecordPanic", "RecordGoroutineUsage",
     "RecordThreadUsage", "RecordGCActivity", "RecordHeapUsage", "RecordIOUsage"}

RecorderOps ==
    TopWriters \cup {"RecordEntry", "RecordExit", "RecordExecutionFrequency",
                     "RecordResourceUsage", "DumpCallGraphDOT", "DumpTrace",
                     "DumpTracePretty"}

\* the statements of each function in the order of its body; the deferred
\* mu.Unlock() runs last
Code(op) ==
    IF op = "RecordEntry" THEN <<"Lock", "id", "new", "push", "log", "Unlock">>
    ELSE IF op \in TopWriters THEN <<"Lock", "write", "log", "Unlock">>
    ELSE IF op = "RecordExit"
    THEN <<"Lock", "pop", "probe", "append", "log", "Unlock">>
    ELSE IF op = "RecordExecutionFrequency"
    THEN <<"Lock", "load", "store", "count", "Unlock", "log">>
    ELSE IF op = "RecordResourceUsage" THEN <<"log">>
    ELSE IF op = "DumpCallGraphDOT"
    THEN <<"Lock", "log", "nodes", "edges", "WriteFile", "log", "Unlock">>
    ELSE IF op = "DumpTrace" THEN <<"Lock", "marshal", "log", "Unlock">>
    ELSE IF op = "DumpTracePretty" THEN <<"header", "elem">>
    ELSE <<>>

\* statements that write a log line or a file or read a counter of the
\* operating system or the runtime (time.Now, runtime.ReadMemStats,
\* GetSystemCPULoad, GetSystemMemUsage)
IOStatements == {"log", "new", "probe", "WriteFile"}

\* statements that read or write callStack, traceRecords, execFrequency or
\* a record reachable from them
SharedStatements ==
    {"push", "write", "pop", "append", "load", "store", "count",
     "nodes", "edges", "marshal", "header", "elem"}

\* a goroutine that is not in the recorder and has no locals
Outside ==
    [op |-> "none", pc |-> 1, fn |-> "", top |-> 0, id |-> 0, tmp |-> 0,
     count |-> 0, n |-> 0, i |-> 0, seen |-> <<>>, edges |-> <<>>,
     ret |-> "none"]

InOp(t) == thr[t].op # "none" /\ thr[t].pc <= Len(Code(thr[t].op))
StmtAt(t) == IF InOp(t) THEN Code(thr[t].op)[thr[t].pc] ELSE "none"
AtStmt(t, op, stmt) == thr[t].op = op /\ StmtAt(t) = stmt

\* the values a recorder function returns: none, or DumpCallGraphDOT's error
NoResult == <<>>
ReturnOf(op, failed) ==
    IF op = "DumpCallGraphDOT" THEN (IF failed THEN <<"error">> ELSE <<"nil">>)
    ELSE NoResult

\* the goroutine's locals after its current statement: it moves to the
\* next one, and returns after the last
Advanced(l) ==
    IF l.pc = Len(Code(l.op)) /\ l.ret # "panic"
    THEN [l EXCEPT !.pc = l.pc + 1, !.ret = ReturnOf(l.op, l.ret = "failing")]
    ELSE [l EXCEPT !.pc = l.pc + 1]

\* the goroutine jumps to its deferred mu.Unlock()
ToUnlock(l) == [l EXCEPT !.pc = Len(Code(l.op))]

\* the records a list of pointers refers to
Deref(ptrs) == [k \in DOMAIN ptrs |-> heap[ptrs[k]]]

\* faulty variant: the lock is taken without waiting for its holder
CanLockAlways(t) == TRUE

\* mu.Lock() returns once no goroutine holds the mutex
CanLock(t) == mu = 0

\* faulty variant of the test
HasTopOrEmpty(stack) == Len(stack) >= 0

\* if len(callStack) > 0
HasTop(stack) == Len(stack) > 0

otherLockVars == <<frames, nUnits, proc, ustate, recovered, act,
                   engineVars, walkVars, cmdVars, clock, mem, art, staging>>

\* a goroutine calls a recorder function
Begin(t, op, fn) ==
    /\ proc = "threads"
    /\ ~InOp(t)
    /\ nops < MaxLockOps
    /\ op = "RecordEntry" => uniqueID < MaxIds
    /\ nops' = nops + 1
    /\ thr' = [thr EXCEPT ![t] = [Outside EXCEPT !.op = op, !.fn = fn]]
    /\ UNCHANGED <<recorderVars, callgraph, mu, heap, freqCalls, otherLockVars>>

\* mu.Lock()
Lock(t) ==
    /\ StmtAt(t) = "Lock"
    /\ CanLock(t)
    /\ mu' = t
    /\ thr' = [thr EXCEPT ![t] = Advanced(@)]
    /\ UNCHANGED <<recorderVars, callgraph, heap, nops, freqCalls, otherLockVars>>

\* mu.Unlock(), deferred or not
Unlock(t) ==
    /\ StmtAt(t) = "Unlock"
    /\ mu' = 0
    /\ thr' = [thr EXCEPT ![t] = Advanced(@)]
    /\ UNCHANGED <<recorderVars, callgraph, heap, nops, freqCalls, otherLockVars>>

\* logger.Printf / logger.Println
Log(t) ==
    /\ StmtAt(t) = "log"
    /\ thr' = [thr EXCEPT ![t] = Advanced(@)]
    /\ UNCHANGED <<recorderVars, callgraph, mu, heap, nops, freqCalls, otherLockVars>>

\* a goroutine's locals with the named ones set
SetLocals(t, l) == [thr EXCEPT ![t] = l]

\* id := atomic.AddInt64(&uniqueID, 1)
EntryId(t) ==
    /\ AtStmt(t, "RecordEntry", "id")
    /\ uniqueID' = NextID(uniqueID)
    /\ thr' = SetLocals(t, Advanced([thr[t] EXCEPT !.id = NextID(uniqueID)]))
    /\ UNCHANGED <<traceRecords, callStack, execFrequency, callgraph, mu, heap,
                   nops, freqCalls, otherLockVars>>

\* record := &TraceRecord{...}, with the readings of time.Now() and readMem()
EntryNew(t) ==
    /\ AtStmt(t, "RecordEntry", "new")
    /\ heap' = Append(heap, TimedRecord(thr[t].id, thr[t].fn, clock, mem))
    /\ thr' = SetLocals(t, Advanced([thr[t] EXCEPT !.top = Len(heap) + 1]))
    /\ UNCHANGED <<recorderVars, callgraph, mu, nops, freqCalls, otherLockVars>>

\* if len(callStack) > 0 { record.CallerID = ... }; callStack = append(callStack, record)
EntryPush(t) ==
    /\ AtStmt(t, "RecordEntry", "push")
    /\ heap' = [heap EXCEPT ![thr[t].top].CallerID =
                                CallerIDOf(Deref(callStack), thr[t].id)]
    /\ callStack' = Append(callStack, thr[t].top)
    /\ thr' = SetLocals(t, Advanced(thr[t]))
    /\ UNCHANGED <<traceRecords, uniqueID, execFrequency, callgraph, mu,
                   nops, freqCalls, otherLockVars>>

\* what each function writes to the record atop the stack
Written(op, rec) ==
    IF op = "RecordParam"
    THEN [rec EXCEPT !.Params = MapPut(@, "jobID", Sprintf(1))]
    ELSE IF op = "RecordReturn"
    THEN [rec EXCEPT !.ReturnValues = @ \o <<Sprintf(2)>>]
    ELSE IF op = "RecordPanic"
    THEN [rec EXCEPT !.PanicValue = "boom", !.StackTrace = DebugStack(rec.FunctionName)]
    ELSE IF op = "RecordGoroutineUsage" THEN [rec EXCEPT !.GoroutinesDelta = 1]
    ELSE IF op = "RecordThreadUsage" THEN [rec EXCEPT !.ThreadsDelta = 1]
    ELSE IF op = "RecordGCActivity" THEN [rec EXCEPT !.GCCountDelta = 1]
    ELSE IF op = "RecordHeapUsage"
    THEN [rec EXCEPT !.HeapAllocDelta = 1, !.HeapFreeDelta = 1]
    ELSE [rec EXCEPT !.NetUsageDelta = 1, !.DiskUsageDelta = 1]

\* an index expression on an empty slice: the goroutine panics, and its
\* deferred mu.Unlock() runs
IndexPanic(l) == ToUnlock([l EXCEPT !.ret = "panic"])

\* if len(callStack) > 0 { top := callStack[len(callStack)-1]; top.X = ... }
TopWrite(t) ==
    /\ thr[t].op \in TopWriters /\ StmtAt(t) = "write"
    /\ IF ~HasTop(callStack)
       THEN /\ thr' = SetLocals(t, Advanced(thr[t]))
            /\ UNCHANGED heap
       ELSE IF Len(callStack) = 0
       THEN /\ thr' = SetLocals(t, IndexPanic(thr[t]))
            /\ UNCHANGED heap
       ELSE /\ heap' = [heap EXCEPT ![Top(callStack)] = Written(thr[t].op, @)]
            /\ thr' = SetLocals(t, Advanced([thr[t] EXCEPT !.top = Top(callStack)]))
    /\ UNCHANGED <<recorderVars, callgraph, mu, nops, freqCalls, otherLockVars>>

\* if len(callStack) > 0 { top := ...; callStack = callStack[:len(callStack)-1]
ExitPop(t) ==
    /\ AtStmt(t, "RecordExit", "pop")
    /\ IF ~HasTop(callStack)
       THEN /\ thr' = SetLocals(t, ToUnlock(thr[t]))
            /\ UNCHANGED callStack
       ELSE IF Len(callStack) = 0
       THEN /\ thr' = SetLocals(t, IndexPanic(thr[t]))
            /\ UNCHANGED callStack
       ELSE /\ callStack' = Pop(callStack)
            /\ thr' = SetLocals(t, Advanced([thr[t] EXCEPT !.top = Top(callStack)]))
    /\ UNCHANGED <<traceRecords, uniqueID, execFrequency, callgraph, mu, heap,
                   nops, freqCalls, otherLockVars>>

\* top.ExitTime = time.Now() ... top.SystemMemUsage = GetSystemMemUsage()
ExitProbe(t) ==
    /\ AtStmt(t, "RecordExit", "probe")
    /\ LET exit == ExitTimeOf(clock, 0)
           top  == heap[thr[t].top]
       IN  heap' = [heap EXCEPT ![thr[t].top] =
                       [top EXCEPT !.ExitTime = exit,
                                   !.Duration = Sub(exit, top.EntryTime),
                                   !.MemAfter = mem,
                                   !.MemDiff = MemDiffOf(mem, top.MemBefore)]]
    /\ thr' = SetLocals(t, Advanced(thr[t]))
    /\ UNCHANGED <<recorderVars, callgraph, mu, nops, freqCalls, otherLockVars>>

\* traceRecords = append(traceRecords, top)
ExitAppend(t) ==
    /\ AtStmt(t, "RecordExit", "append")
    /\ traceRecords' = Aggregate(traceRecords, thr[t].top)
    /\ thr' = SetLocals(t, Advanced(thr[t]))
    /\ UNCHANGED <<callStack, uniqueID, execFrequency, callgraph, mu, heap,
                   nops, freqCalls, otherLockVars>>

\* execFrequency[functionName]++ reads the entry ...
FreqLoad(t) ==
    /\ AtStmt(t, "RecordExecutionFrequency", "load")
    /\ thr' = SetLocals(t, Advanced([thr[t] EXCEPT !.tmp = execFrequency[thr[t].fn]]))
    /\ UNCHANGED <<recorderVars, callgraph, mu, heap, nops, freqCalls, otherLockVars>>

\* ... and writes it back, one higher
FreqStore(t) ==
    /\ AtStmt(t, "RecordExecutionFrequency", "store")
    /\ execFrequency' = [execFrequency EXCEPT ![thr[t].fn] = thr[t].tmp + 1]
    /\ freqCalls' = [freqCalls EXCEPT ![thr[t].fn] = @ + 1]
    /\ thr' = SetLocals(t, Advanced(thr[t]))
    /\ UNCHANGED <<traceRecords, callStack, uniqueID, callgraph, mu, heap,
                   nops, otherLockVars>>

\* count := execFrequency[functionName]
FreqCount(t) ==
    /\ AtStmt(t, "RecordExecutionFrequency", "count")
    /\ thr' = SetLocals(t, Advanced([thr[t] EXCEPT !.count = execFrequency[thr[t].fn]]))
    /\ UNCHANGED <<recorderVars, callgraph, mu, heap, nops, freqCalls, otherLockVars>>

\* the first loop over traceRecords: a node line per record
DotNodeLoop(t) ==
    /\ AtStmt(t, "DumpCallGraphDOT", "nodes")
    /\ thr' = SetLocals(t, Advanced([thr[t] EXCEPT !.seen = Deref(traceRecords)]))
    /\ UNCHANGED <<recorderVars, callgraph, mu, heap, nops, freqCalls, otherLockVars>>

\* the second loop over traceRecords: an edge line per record with a caller
DotEdgeLoop(t) ==
    /\ AtStmt(t, "DumpCallGraphDOT", "edges")
    /\ thr' = SetLocals(t, Advanced([thr[t] EXCEPT
                                        !.edges = DotEdges(Deref(traceRecords))]))
    /\ UNCHANGED <<recorderVars, callgraph, mu, heap, nops, freqCalls, otherLockVars>>

\* os.WriteFile: on an error the function returns it at once
DotWriteFile(t, fails) ==
    /\ AtStmt(t, "DumpCallGraphDOT", "WriteFile")
    /\ IF fails
       THEN /\ thr' = SetLocals(t, ToUnlock([thr[t] EXCEPT !.ret = "failing"]))
            /\ UNCHANGED callgraph
       ELSE /\ thr' = SetLocals(t, Advanced(thr[t]))
            /\ callgraph' = [written |-> TRUE,
                             nodes   |-> DotNodes(thr[t].seen),
                             edges   |-> thr[t].edges]
    /\ UNCHANGED <<recorderVars, mu, heap, nops, freqCalls, otherLockVars>>

\* json.MarshalIndent(traceRecords, "", "  ")
TraceMarshal(t) ==
    /\ AtStmt(t, "DumpTrace", "marshal")
    /\ thr' = SetLocals(t, Advanced([thr[t] EXCEPT !.seen = Deref(traceRecords)]))
    /\ UNCHANGED <<recorderVars, callgraph, mu, heap, nops, freqCalls, otherLockVars>>

\* another goroutine is in RecordExit with a record it has popped: its
\* append and a read made without the lock are not ordered
AppendUnordered(t) ==
    \E s \in Threads \ {t} :
        thr[s].op = "RecordExit" /\ StmtAt(s) \in {"probe", "append", "log"}

\* pp.Println(traceRecords): the slice header is read, without the lock.
\* A read racing with the append may see the new length before the element
\* is there.
PrettyHeader(t, torn) ==
    /\ AtStmt(t, "DumpTracePretty", "header")
    /\ torn => AppendUnordered(t)
    /\ thr' = SetLocals(t, Advanced([thr[t] EXCEPT
                  !.n = Len(traceRecords) + (IF torn THEN 1 ELSE 0)]))
    /\ UNCHANGED <<recorderVars, callgraph, mu, heap, nops, freqCalls, otherLockVars>>

\* the printer walks the elements and the records they point to
PrettyElem(t) ==
    /\ AtStmt(t, "DumpTracePretty", "elem")
    /\ LET i == thr[t].i + 1
       IN  IF i <= thr[t].n
           THEN thr' = SetLocals(t, [thr[t] EXCEPT
                          !.i = i,
                          !.seen = Append(@, IF i <= Len(traceRecords)
                                             THEN heap[traceRecords[i]]
                                             ELSE "garbage")])
           ELSE thr' = SetLocals(t, Advanced(thr[t]))
    /\ UNCHANGED <<recorderVars, callgraph, mu, heap, nops, freqCalls, otherLockVars>>

\* the names passed to RecordExecutionFrequency
FreqNames == {"processJob", "logResult"}

InitLock ==
    /\ traceRecords = <<>>
    /\ callStack = <<>>
    /\ uniqueID = 0
    /\ execFrequency = [fn \in Funcs |-> 0]
    /\ nUnits = MaxThreads
    /\ frames = [u \in Units |-> <<>>]
    /\ ustate = [u \in Units |-> "idle"]
    /\ proc = "threads"
    /\ recovered = FALSE
    /\ act = <<>>
    /\ callgraph = NoGraph
    /\ EngineIdle /\ WalkIdle /\ CmdIdle
    /\ clock = 1 /\ mem = 1
    /\ art = NoArtifacts
    /\ staging = NoStaging
    /\ mu = 0
    /\ heap = <<>>
    /\ thr = [t \in Threads |-> Outside]
    /\ nops = 0
    /\ freqCalls = [fn \in Funcs |-> 0]

NextLock ==
    \E t \in Threads :
        \/ \E op \in RecorderOps \ {"RecordExecutionFrequency"} :
              Begin(t, op, "processJob")
        \/ \E fn \in FreqNames : Begin(t, "RecordExecutionFrequency", fn)
        \/ Lock(t)
        \/ Unlock(t)
        \/ Log(t)
        \/ EntryId(t)
        \/ EntryNew(t)
        \/ EntryPush(t)
        \/ TopWrite(t)
        \/ ExitPop(t)
        \/ ExitProbe(t)
        \/ ExitAppend(t)
        \/ FreqLoad(t)
        \/ FreqStore(t)
        \/ FreqCount(t)
        \/ DotNodeLoop(t)
        \/ DotEdgeLoop(t)
        \/ \E fails \in BOOLEAN : DotWriteFile(t, fails)
        \/ TraceMarshal(t)
        \/ \E torn \in BOOLEAN : PrettyHeader(t, torn)
        \/ PrettyElem(t)

SpecLock == InitLock /\ [][NextLock]_vars

\* ================================================================ claims
AllRecords == SeqToSet(callStack) \cup SeqToSet(traceRecords)
IdsOf(seq) == {seq[k].UniqueID : k \in DOMAIN seq}
Count(seq, x) == Cardinality({k \in DOMAIN seq : seq[k] = x})
ActsOf(id) == {a \in SeqToSet(act) : a.id = id}
AllFrames == UNION {SeqToSet(frames[u]) : u \in Units}
AllDone == \A u \in Units : frames[u] = <<>>

\* the ids on the caller-id chain of record id, at most n links up
RECURSIVE AncestorIds(_, _)
AncestorIds(id, n) ==
    IF n = 0 THEN {}
    ELSE LET up == {r.CallerID : r \in {x \in AllRecords : x.UniqueID = id}} \ {0}
         IN  up \cup UNION {AncestorIds(c, n - 1) : c \in up}

\* C1: a record is appended to the aggregate list at most once, and no record
\* is on the call stack and in the aggregate list at the same time.
C1_FinalizedOnceNeverActive ==
    /\ Cardinality(IdsOf(traceRecords)) = Len(traceRecords)
    /\ IdsOf(callStack) \cap IdsOf(traceRecords) = {}

C1_Witness ==
    /\ nUnits > 1
    /\ Len(traceRecords) > 0 /\ Len(callStack) > 0
    /\ \E a \in SeqToSet(act) : a.unit # 1

\* C2: in a program of one goroutine, whenever an activation is about to issue
\* one of its recorder calls (Param, Return, a usage call, Exit, Panic), the
\* record its RecordEntry created is the top of the call stack.
C2_OwnRecordOnTop ==
    \A u \in Units :
        (frames[u] # <<>> /\ Cur(u).pc \in {"param", "ret", "usage", "exit", "panic"})
            => (Len(callStack) > 0 /\ Top(callStack).UniqueID = Cur(u).rid)

\* C3: in a program of one goroutine, once a fault that no function recovered
\* has unwound the whole call chain, exactly one record has a non-empty fault
\* value and stack trace.
C3_ExactlyOneFaultRecord ==
    (proc = "crashed" /\ ~recovered)
        => Cardinality({r \in AllRecords :
                            r.PanicValue # NoFault /\ r.StackTrace # ""}) = 1

C5_EnterExitPaired ==
    /\ \A fr \in AllFrames :
          fr.pc = "done" =>
              Count(fr.calls, "Entry") = 1 /\ Count(fr.calls, "Exit") = 1
    /\ AllDone => (callStack = <<>> /\ Len(traceRecords) = Len(act))

C5_Witness ==
    /\ AllDone /\ proc = "crashed"
    /\ Len(act) > 1

\* C6: every RecordEntry assigns an id greater than every id assigned before,
\* and no two records share an id.
C6_IdsStrictlyIncrease ==
    /\ \A k, l \in DOMAIN act : k < l => act[k].id < act[l].id
    /\ Cardinality(IdsOf(callStack) \cup IdsOf(traceRecords))
           = Len(callStack) + Len(traceRecords)
    /\ \A r \in AllRecords : r.UniqueID \in 1..uniqueID

C6_Witness ==
    \E k, l \in DOMAIN act : k < l /\ act[k].unit # act[l].unit

\* C7 as stated: the ids of the aggregate list increase in append order.
C7_AggregateIdsIncrease ==
    \A k, l \in DOMAIN traceRecords :
        k < l => traceRecords[k].UniqueID < traceRecords[l].UniqueID

\* C7 amended: in append order the ids of the aggregate list increase except
\* from a record to one on its caller-id chain: a callee is appended before
\* its caller, whose id is smaller.
C7_AggregateIdsIncreaseUnlessNested ==
    \A k, l \in DOMAIN traceRecords :
        k < l => \/ traceRecords[k].UniqueID < traceRecords[l].UniqueID
                 \/ traceRecords[l].UniqueID
                        \in AncestorIds(traceRecords[k].UniqueID, Len(act))

C7_Witness ==
    /\ \E k, l \in DOMAIN traceRecords :
          k < l /\ traceRecords[k].UniqueID < traceRecords[l].UniqueID
    /\ \E k, l \in DOMAIN traceRecords :
          k < l /\ traceRecords[k].UniqueID > traceRecords[l].UniqueID

\* C8: a record's caller id, if present, is the id an earlier RecordEntry
\* assigned (smaller than its own id), and a record created while the call
\* stack was empty has no caller id.
C8_CallerAssignedEarlier ==
    \A r \in AllRecords :
        /\ r.CallerID # 0 =>
              /\ r.CallerID < r.UniqueID
              /\ ActsOf(r.CallerID) # {}
        /\ \A a \in ActsOf(r.UniqueID) : a.depth = 0 => r.CallerID = 0

C8_Witness ==
    /\ nUnits > 1
    /\ \E r \in AllRecords : \E c \in ActsOf(r.CallerID) : \E a \in ActsOf(r.UniqueID) :
          r.CallerID # 0 /\ c.unit # a.unit
    /\ \E r \in AllRecords : \E a \in ActsOf(r.UniqueID) :
          a.depth = 0 /\ r.CallerID = 0

\* C9: in a program of one goroutine every record's caller id is the id of
\* the activation that called it (none for the entry function); with several
\* goroutines a record can name an activation of another goroutine that
\* neither called it nor started its goroutine (the witness).
C9_SingleUnitCallerEdgesTrue ==
    nUnits = 1 =>
        \A r \in AllRecords : \A a \in ActsOf(r.UniqueID) : r.CallerID = a.caller

C9_MisleadingEdge ==
    /\ nUnits > 1
    /\ \E r \in AllRecords : \E a \in ActsOf(r.UniqueID) : \E c \in ActsOf(r.CallerID) :
          /\ r.CallerID # 0
          /\ c.unit # a.unit
          /\ a.spawner # r.CallerID
          /\ a.caller # r.CallerID

\* C10: a record is in the aggregate list only if the activation that
\* created it has issued its RecordExit.
C10_FinalizedByOwnExit ==
    \A fr \in AllFrames :
        (fr.rid # 0 /\ Count(fr.calls, "Exit") = 0)
            => fr.rid \notin IdsOf(traceRecords)

\* the statement is a bind-record-return block: k bindings to _ret0.._ret(k-1),
\* a RecordReturn call with these k names, a return of these k names
IsBindRecordReturn(s) ==
    /\ s.kind = "BlockStmt"
    /\ Len(s.List) >= 2
    /\ LET k      == Len(s.List) - 2
           idents == [i \in 1..k |-> Ident(RetName(i - 1))]
           call   == s.List[k + 1]
       IN  /\ \A i \in 1..k : s.List[i].kind = "AssignStmt" /\ s.List[i].Name = RetName(i - 1)
           /\ call.kind = "ExprStmt"
           /\ call.Exprs[1].kind = "CallExpr"
           /\ call.Exprs[1].Name = "tracer.RecordReturn"
           /\ SubSeq(call.Exprs[1].Args, 2, k + 1) = idents
           /\ s.List[k + 2].kind = "ReturnStmt"
           /\ s.List[k + 2].Exprs = idents

\* statement s has, at any depth of its nested statements and outside function
\* literals, a return that is neither narrowed nor in bind-record-return form
RECURSIVE HasPlainReturn(_)
HasPlainReturn(s) ==
    IF s.kind = "ReturnStmt" THEN ~Narrowed(s)
    ELSE IF IsBindRecordReturn(s) THEN FALSE
    ELSE \/ \E i \in DOMAIN s.List : HasPlainReturn(s.List[i])
         \/ \E i \in DOMAIN s.Else : HasPlainReturn(s.Else[i])

Eligible(d) == d.kind = "FuncDecl" /\ d.HasBody /\ ~(d.Name = "init" /\ ~d.Recv)
FileDecls == {file.decls[i] : i \in DOMAIN file.decls}

\* C11: after one run of the engine no instrumented function has, at any depth
\* of if/else, switch, select, for or range blocks and outside function
\* literals, a return that is neither narrowed nor in bind-record-return form.
C11_EveryReachableReturnRewritten ==
    runs = 1 =>
        \A d \in FileDecls :
            (Eligible(d) /\ d.Name # "init")
                => \A i \in DOMAIN d.Body : ~HasPlainReturn(d.Body[i])

\* C12: once an activation has issued the RecordReturn call of its rewritten
\* return of k values, its own record holds exactly k return values: the
\* renderings of the values it returns, in left-to-right order.
C12_ReturnValuesOnOwnRecord ==
    \A fr \in AllFrames :
        Count(fr.calls, "Return") = 1 =>
            \E r \in AllRecords :
                /\ r.UniqueID = fr.rid
                /\ r.ReturnValues = [k \in 1..Len(fr.rets) |-> Sprintf(fr.rets[k])]

\* C13: a call of the rewritten function gives what the same call of the
\* original gives: the same returned values or the same fault, with the
\* program's own expressions evaluated once each and in the same order.
C13_SameOutcomeAsOriginal ==
    outcome.ran =>
        /\ outcome.inst.built = outcome.orig.built
        /\ outcome.inst.fault = outcome.orig.fault
        /\ outcome.inst.vals = outcome.orig.vals
        /\ outcome.inst.evals = outcome.orig.evals

\* C14: after one run of the engine a declaration carries the entry probe if
\* and only if it is a function or method with a body other than the
\* initializer function init.
C14_InstrumentedIffEligible ==
    runs = 1 =>
        \A i \in DOMAIN orig.decls :
            Instrumented(file.decls[i]) <=> Eligible(orig.decls[i])

\* the statements of a body equal to stmt
Occurrences(body, stmt) == Cardinality({i \in DOMAIN body : body[i] = stmt})

\* C15: after a second run of the engine over the file it has rewritten, every
\* instrumented function still has exactly one RecordEntry call and one
\* deferred RecordExit call.
C15_SecondRunAddsNoProbe ==
    runs = 2 =>
        \A d \in FileDecls :
            Instrumented(d) =>
                /\ Occurrences(d.Body, recordEntryCall(d.Name)) = 1
                /\ Occurrences(d.Body, deferExit(d.Name)) = 1

\* path rel lies in the directory tracer of the workspace root
InReserved(rel) == HasPrefix(rel, Tracer \o Slash)

\* path rel matches one of the exclude patterns
Excluded(rel) == \E k \in DOMAIN ws.exclude : Match(ws.exclude[k], rel)

\* C16: no file is opened for writing twice, and none that is not a .go file
\* outside the reserved directory matching no exclude pattern; when the walk
\* has ended without error, every such file was rewritten exactly once.
C16_RewrittenIffSelected ==
    \A i \in DOMAIN created :
        LET selected == /\ i \in GoFiles
                        /\ ~InReserved(Tree[i].rel)
                        /\ ~Excluded(Tree[i].rel)
        IN  /\ created[i] <= 1
            /\ ~selected => created[i] = 0
            /\ (walk = "done" /\ selected) => created[i] = 1

\* C17: a file that does not parse is the last file handed to the parser and
\* the last entry visited: the walk has failed with an error that carries
\* this file's path and the parse cause, the file itself was not opened for
\* writing, and no later entry was parsed or opened for writing.
C17_ParseFailureStopsWalk ==
    \A k \in DOMAIN parsed :
        parsed[k] \in ws.broken =>
            /\ k = Len(parsed)
            /\ Last(visited) = parsed[k]
            /\ walk = "failed"
            /\ walkErr = [path |-> Tree[parsed[k]].rel, cause |-> "parsing error"]
            /\ created[parsed[k]] = 0
            /\ \A j \in DOMAIN Tree : j > parsed[k] => created[j] = 0

C17_Witness ==
    /\ walk = "failed" /\ walkErr.cause = "parsing error"
    /\ \E i \in DOMAIN Tree : created[i] = 1 /\ i < Last(parsed)
    /\ \E j \in GoFiles :
          j > Last(parsed) /\ ~HasPrefix(Tree[j].rel, Tracer) /\ ~Excluded(Tree[j].rel)

\* the steps started are the first n steps of the command, in its order
StartedInOrder == cmd.started = SubSeq(Steps, 1, Len(cmd.started))

\* C18: the steps start in the order prepare, config, instrument, build, run;
\* once a step has failed (the walk of the instrument step included) the
\* failed step is the last one started and the command has exited with a
\* non-zero status or is about to, with no build and no run after a failed
\* walk; without --project no step starts; status 0 means all steps ran.
C18_StepsInOrderFailFast ==
    /\ StartedInOrder
    /\ cmd.failed \in {"prepare", "config", "instrument", "build", "run"}
          => (Last(cmd.started) = cmd.failed /\ cmd.exit = 1)
    /\ cmd.failed \in {"resolve", "move"} => cmd.exit = 1
    /\ walk = "failed" => Last(cmd.started) = "instrument"
    /\ cmd.pc = "exited" => cmd.exit \in {0, 1}
    /\ (cmd.pc = "exited" /\ cmd.failed # "none") => cmd.exit = 1
    /\ ~cmd.project => (cmd.started = <<>> /\ cmd.exit \in {-1, 1})
    /\ cmd.exit = 0 => (cmd.started = Steps /\ cmd.failed = "none")

C18_Witness ==
    /\ walk = "failed"
    /\ cmd.pc = "exited" /\ cmd.exit = 1
    /\ cmd.started = <<"prepare", "config", "instrument">>
    /\ \E i \in DOMAIN created : created[i] = 1

\* the positions of the edge caller -> id, of the node id
EdgesAt(c, id) == {i \in DOMAIN callgraph.edges : callgraph.edges[i] = <<c, id>>}
NodesAt(id) == {i \in DOMAIN callgraph.nodes : callgraph.nodes[i] = id}
WithCaller == {i \in DOMAIN traceRecords : traceRecords[i].CallerID # 0}

\* the aggregate of the scenario: root, a and b, both called by root
RootAB ==
    /\ Len(traceRecords) = 3
    /\ traceRecords[1].CallerID = 0
    /\ traceRecords[2].CallerID = traceRecords[1].UniqueID
    /\ traceRecords[3].CallerID = traceRecords[1].UniqueID

\* C19: the graph DumpCallGraphDOT writes has exactly one edge caller id -> id
\* for each record with a caller id and no other edge, and exactly one node
\* for each record with a caller; for root, a, b with a and b called by root
\* it has 2 nodes other than the root's and exactly 2 edges, both from the
\* root's id.
C19_EdgePerCallerNodePerRecord ==
    callgraph.written =>
        /\ \A i \in WithCaller :
              /\ Cardinality(EdgesAt(traceRecords[i].CallerID, traceRecords[i].UniqueID)) = 1
              /\ Cardinality(NodesAt(traceRecords[i].UniqueID)) = 1
        /\ \A k \in DOMAIN callgraph.edges : \E i \in WithCaller :
              callgraph.edges[k] = <<traceRecords[i].CallerID, traceRecords[i].UniqueID>>
        /\ Len(callgraph.edges) = Cardinality(WithCaller)
        /\ RootAB =>
              /\ Cardinality({k \in DOMAIN callgraph.nodes :
                                  callgraph.nodes[k] # traceRecords[1].UniqueID}) = 2
              /\ Len(callgraph.edges) = 2
              /\ \A k \in DOMAIN callgraph.edges :
                    callgraph.edges[k][1] = traceRecords[1].UniqueID

C19_Witness == callgraph.written /\ RootAB /\ Len(callgraph.edges) = 2

\* the id main's RecordEntry assigned: main is the activation of goroutine 1
\* that no instrumented function called
MainIds == {act[i].id : i \in {k \in DOMAIN act : act[k].unit = 1 /\ act[k].caller = 0}}

\* the activations main called directly
CalledByMain == {act[i].id : i \in {k \in DOMAIN act : act[k].unit = 1 /\ act[k].caller \in MainIds}}

\* the graph is the call graph of the run so far
GraphOfRun ==
    /\ \A m \in MainIds : NodesAt(m) = {}
    /\ \A i \in DOMAIN traceRecords :
          traceRecords[i].UniqueID \notin MainIds
             => Cardinality(NodesAt(traceRecords[i].UniqueID)) = 1
    /\ \A m \in MainIds, id \in CalledByMain : Cardinality(EdgesAt(m, id)) = 1

\* C20: the graph written at the end of main's body has one node for every
\* finalized record except main's, no node for main's record, and an edge
\* from main's id to every activation main called directly.
C20_EntryFunctionElided ==
    [][(~callgraph.written /\ callgraph'.written) => GraphOfRun']_vars

\* the function called was the program's entry function and it returned
EntryReturned ==
    /\ outcome.ran
    /\ orig.decls[outcome.decl].Name = "main" /\ ~orig.decls[outcome.decl].Recv
    /\ outcome.inst.built
    /\ outcome.inst.fault = NoFault

\* the positions of a recorder call among the calls the activation issued
CallsOf(name) == {k \in DOMAIN outcome.inst.trace : outcome.inst.trace[k] = name}

\* C21: whenever the instrumented entry function returns, by falling off the
\* end of its body or through a return statement, the call graph dump has
\* been executed exactly once, after the Entry call and before the deferred
\* blocks.
C21_DumpOnceOnEveryReturn ==
    EntryReturned =>
        /\ Cardinality(CallsOf("tracer.DumpCallGraphDOT")) = 1
        /\ \A k \in CallsOf("tracer.DumpCallGraphDOT") :
              /\ \A e \in CallsOf("tracer.RecordEntry") : e < k
              /\ \A x \in CallsOf("tracer.RecordExit") : k < x

\* C22: every finalized record has an exit time not earlier than its own
\* entry time and a duration, their difference, that is not negative,
\* whichever goroutine's RecordExit finalized it.
C22_DurationNotNegative ==
    \A i \in DOMAIN traceRecords :
        /\ traceRecords[i].ExitTime >= traceRecords[i].EntryTime
        /\ traceRecords[i].Duration = traceRecords[i].ExitTime - traceRecords[i].EntryTime
        /\ traceRecords[i].Duration >= 0

\* two records finalized in the order of their creation (so not by their own
\* activations' nesting), each with time passed between entry and exit
C22_Witness ==
    /\ proc = "metered"
    /\ Len(traceRecords) = 2
    /\ traceRecords[1].UniqueID = 1
    /\ \A i \in DOMAIN traceRecords : traceRecords[i].Duration > 0

\* C23: the memory delta of every finalized record is memory-after minus
\* memory-before when memory-after is greater and 0 otherwise; it is never
\* the wrapped unsigned difference.
C23_MemDiffFlooredAtZero ==
    \A i \in DOMAIN traceRecords :
        LET r == traceRecords[i]
        IN  /\ r.MemDiff = IF r.MemAfter > r.MemBefore
                           THEN r.MemAfter - r.MemBefore ELSE 0
            /\ r.MemDiff \in MemValues
            /\ r.MemDiff <= r.MemAfter

\* a record finalized with less memory in use than at its entry
C23_Witness ==
    /\ proc = "metered"
    /\ \E i \in DOMAIN traceRecords :
          /\ traceRecords[i].MemAfter < traceRecords[i].MemBefore
          /\ traceRecords[i].MemDiff = 0

Logged(text) == \E k \in DOMAIN art.lines : art.lines[k].text = text

\* the traced program ran as it does when every write succeeds
SameControlFlow ==
    /\ art.exit = 0
    /\ art.flow = <<"entry">> \o [k \in 1..(Len(art.flow) - 3) |-> "call"]
                       \o <<"dump", "exit">>

\* C24: when the traced program has ended, each failure to create the
\* artifact directory, to open the log file or to write the call graph file
\* has been logged, and the program ran with the control flow and the exit
\* code of a run without failure.
C24_FailuresLoggedRunUnchanged ==
    art.pc = "exited" =>
        /\ SameControlFlow
        /\ art.dirFailed => Logged("Error creating log directory")
        /\ art.openFailed => Logged("Error opening log file")
        /\ art.dotFailed => Logged("failed to write DOT file")

\* entry j of the project lies in the top-level tracewrap directory
InTopTracewrap(j) ==
    \E i \in DOMAIN staging.before :
        /\ staging.before[i].rel = "tracewrap" /\ staging.before[i].isDir
        /\ Under(staging.before, j, i)

\* the files of the project outside a top-level tracewrap directory
ProjectFiles ==
    {j \in DOMAIN staging.before :
        /\ ~staging.before[j].isDir
        /\ Exists(staging.before, j)
        /\ ~InTopTracewrap(j)}

\* C25: when PrepareWorkspace returns a directory, that directory holds, for
\* every file of the project at any depth outside a top-level tracewrap
\* directory, a file at the same relative path with the same content, and
\* the project directory is as it was.
C25_WorkspaceMirrorsProject ==
    staging.returned = "tempDir" =>
        /\ \A j \in ProjectFiles :
              /\ [rel |-> staging.before[j].rel, isDir |-> FALSE,
                  data |-> staging.before[j].data] \in staging.workspace
              /\ Cardinality({w \in staging.workspace :
                                  w.rel = staging.before[j].rel}) = 1
        /\ staging.project = staging.before

\* a project with a top-level tracewrap directory and a nested one has been
\* copied
C25_Witness ==
    /\ staging.returned = "tempDir"
    /\ staging.before[7].isDir
    /\ \E w \in staging.workspace : w.rel = "sub/tracewrap/c.log"
    /\ ~\E w \in staging.workspace : w.rel = "tracewrap/callgraph.dot"

\* the recorder calls of the resource-delta block, in the order of its body
UsageCalls == <<"ResourceUsage", "GoroutineUsage", "ThreadUsage", "GCActivity",
                "HeapUsage", "IOUsage", "ExecutionFrequency">>

\* the positions of a recorder call among the calls of activation fr
At(fr, name) == {k \in DOMAIN fr.calls : fr.calls[k] = name}

\* the deltas of the resource-delta block are on the record
HasDeltas(r) ==
    /\ r.GoroutinesDelta # 0 /\ r.ThreadsDelta # 0 /\ r.GCCountDelta # 0
    /\ r.HeapAllocDelta # 0 /\ r.HeapFreeDelta # 0
    /\ r.NetUsageDelta # 0 /\ r.DiskUsageDelta # 0

\* C26: on every exit path the deferred blocks of an activation run in the
\* order resource-delta block, Exit call, recovery block; when the
\* resource-delta block has run the activation's record is still on the
\* stack and carries the deltas.
C26_UsageThenExitThenRecovery ==
    \A fr \in AllFrames :
        /\ \A i \in DOMAIN UsageCalls :
              \A k \in At(fr, UsageCalls[i]), x \in At(fr, "Exit") : k < x
        /\ \A x \in At(fr, "Exit"), q \in At(fr, "Panic") : x < q
        /\ fr.pc = "done" =>
              /\ \A i \in DOMAIN UsageCalls : Cardinality(At(fr, UsageCalls[i])) = 1
              /\ Cardinality(At(fr, "Exit")) = 1
        /\ fr.pc = "exit" =>
              \E k \in DOMAIN callStack :
                  callStack[k].UniqueID = fr.rid /\ HasDeltas(callStack[k])

\* the record RecordEntry created for activation fr, on the stack or finalized
OwnRecords(fr) == {r \in AllRecords : r.UniqueID = fr.rid}

\* C27: once an activation unwinding with a fault it did not recover has
\* called RecordPanic, its own record holds the fault value and the stack
\* trace passed in the call.
C27_FaultOnOwnRecord ==
    \A fr \in AllFrames :
        At(fr, "Panic") # {} =>
            \E r \in OwnRecords(fr) :
                /\ r.PanicValue = fr.inFault
                /\ r.PanicValue # NoFault
                /\ r.StackTrace = DebugStack(fr.fn)

\* a result expression the narrowing rule names: a call or the identifier nil
CallOrNil(e) == e.kind = "CallExpr" \/ (e.kind = "Ident" /\ e.Name = "nil")

\* where the first statement of the original body of d stands after the run
BodyStart(d) == Len(newStmts(d.Name)) + Len(paramLogs(d.Params)) + 1

\* C28: after one run of the engine, a return statement (with results) of an
\* instrumented function is unchanged exactly when every one of its result
\* expressions is a call or nil, and is in bind-record-return form otherwise.
C28_UntouchedIffAllCallOrNil ==
    runs = 1 =>
        \A i \in DOMAIN orig.decls :
            LET d   == orig.decls[i]
                ret == d.Body[1]
                new == file.decls[i].Body[BodyStart(d)]
            IN  (Instrumented(file.decls[i]) /\ d.Body # <<>>
                    /\ ret.kind = "ReturnStmt" /\ ret.Exprs # <<>>)
                   => /\ (new = ret) <=> (\A k \in DOMAIN ret.Exprs : CallOrNil(ret.Exprs[k]))
                      /\ (\E k \in DOMAIN ret.Exprs : ~CallOrNil(ret.Exprs[k]))
                            => IsBindRecordReturn(new)

\* the first n declared parameters of fn
FirstParams(fn, n) == {ParamNames(fn)[j] : j \in 1..n}

\* Entry, then n times Param
EntryThenParams(n) == <<"Entry">> \o [j \in 1..n |-> "Param"]

\* C29: an activation issues RecordEntry with the name of its function, then
\* one RecordParam per declared parameter in declaration order, before any
\* original statement of its body runs: while it is at its k-th parameter
\* log it has called nothing else and started nothing, and its record holds
\* exactly the first k-1 parameters; afterwards its calls begin with Entry
\* and one Param per parameter, and there is no other Param call.
C29_EntryThenParamsBeforeBody ==
    \A u \in Units : \A d \in DOMAIN frames[u] :
        LET fr == frames[u][d]
            np == Len(ParamNames(fr.fn))
        IN  /\ fr.pc = "entry" => (fr.calls = <<>> /\ d = Len(frames[u]))
            /\ fr.pc = "param" =>
                  /\ fr.calls = EntryThenParams(fr.i - 1)
                  /\ d = Len(frames[u]) /\ fr.rets = <<>> /\ fr.inFault = NoFault
                  /\ \E r \in OwnRecords(fr) :
                        r.FunctionName = fr.fn /\ DOMAIN r.Params = FirstParams(fr.fn, fr.i - 1)
            /\ fr.pc \notin {"entry", "param"} =>
                  /\ Len(fr.calls) >= np + 1
                  /\ SubSeq(fr.calls, 1, np + 1) = EntryThenParams(np)
                  /\ Cardinality(At(fr, "Param")) = np
                  /\ Cardinality(At(fr, "Entry")) = 1
                  /\ \E r \in OwnRecords(fr) :
                        /\ r.FunctionName = fr.fn
                        /\ r.Params = [x \in FirstParams(fr.fn, np) |->
                               Sprintf(fr.args[CHOOSE j \in 1..np : ParamNames(fr.fn)[j] = x])]

\* an activation with three parameters has logged them and runs its body
C29_Witness ==
    \E u \in Units :
        /\ frames[u] # <<>>
        /\ Cur(u).fn = "logResult" /\ Cur(u).pc = "body"
        /\ Cardinality(At(Cur(u), "Param")) = 3

\* how often a path is imported by the file
ImportCount(pkg) ==
    Cardinality({<<d, j>> \in (DOMAIN importDecls) \X (1..(MaxImports + 5)) :
                    j \in DOMAIN importDecls[d] /\ importDecls[d][j].path = pkg})

\* C30: after any run of the engine over a file, each of time, fmt,
\* runtime/debug, runtime and the recorder module is imported exactly once,
\* whether or not the file imported it before.
C30_RequiredImportsOnce ==
    runs >= 1 => \A pkg \in EnsuredImports : ImportCount(pkg) = 1


\* the step in which goroutine u calls RecordResourceUsage: the first call
\* of its resource-delta block
CallsResourceUsage(u) ==
    /\ Running(u) /\ Cur(u).pc = "usage" /\ Cur(u).i = 1
    /\ frames'[u] # frames[u]


\* ------------------------------------------------ claims on the statements
\* goroutine t takes a step inside the recorder
StepOf(t) == InOp(t) /\ thr'[t] # thr[t]

\* goroutine t has passed mu.Lock() and not yet mu.Unlock()
InCritical(t) ==
    /\ InOp(t)
    /\ \E k \in 1..(thr[t].pc - 1) : Code(thr[t].op)[k] = "Lock"
    /\ ~\E k \in 1..(thr[t].pc - 1) : Code(thr[t].op)[k] = "Unlock"

Returned(t) == thr[t].op # "none" /\ ~InOp(t)

IsPrefixOf(s, r) == Len(s) <= Len(r) /\ SubSeq(r, 1, Len(s)) = s

\* C31: RecordParam, RecordReturn, RecordExit, RecordPanic and the five
\* usage-delta functions, running while the call stack is empty, change
\* neither the call stack nor the aggregate list nor the id counter nor any
\* record, and do not panic (top = 0: the function has not itself taken a
\* record off the stack).
C31_EmptyStackNoOp ==
    [][\A t \in Threads :
          (/\ thr[t].op \in TopWriters \cup {"RecordExit"}
           /\ callStack = <<>> /\ thr[t].top = 0
           /\ StepOf(t))
          => /\ UNCHANGED <<callStack, traceRecords, uniqueID, heap>>
             /\ thr'[t].ret # "panic"]_vars

C31_Witness ==
    /\ traceRecords # <<>> /\ callStack = <<>>
    /\ \E t \in Threads :
          /\ thr[t].op \in TopWriters \cup {"RecordExit"}
          /\ Returned(t) /\ thr[t].ret = NoResult /\ thr[t].top = 0

\* C32: a goroutine at a statement of RecordEntry .. RecordExecutionFrequency,
\* DumpCallGraphDOT or DumpTrace that reads or writes the call stack, the
\* aggregate list or the frequency map holds the lock; no two goroutines are
\* between Lock and Unlock at once; and what a dump has read is the whole
\* aggregate list as it is, all of its records finalized, while no Enter or
\* Exit is under way.
C32_MutationsAndDumpsUnderLock ==
    /\ \A t \in Threads :
          (thr[t].op # "DumpTracePretty" /\ StmtAt(t) \in SharedStatements)
              => mu = t
    /\ \A t, s \in Threads : (InCritical(t) /\ InCritical(s)) => t = s
    /\ \A t \in Threads :
          (thr[t].op \in {"DumpCallGraphDOT", "DumpTrace"} /\ InCritical(t)
              /\ StmtAt(t) \notin {"nodes", "marshal"} /\ thr[t].pc > 2)
          => /\ thr[t].seen = Deref(traceRecords)
             /\ \A k \in DOMAIN thr[t].seen : thr[t].seen[k].ExitTime # 0
             /\ \A s \in Threads \ {t} : ~InCritical(s)

C32_Witness ==
    \E t, s \in Threads :
        /\ thr[t].op \in {"DumpCallGraphDOT", "DumpTrace"} /\ InCritical(t)
        /\ thr[t].seen # <<>>
        /\ AtStmt(s, "RecordEntry", "Lock")

\* C33: a goroutine holding the lock is not at a statement that writes a
\* log line or a file or reads a counter of the operating system or the
\* runtime.
C33_NoIOUnderLock ==
    \A t \in Threads : mu = t => StmtAt(t) \notin IOStatements

\* C34 as stated: an activation calls ResourceUsage only after its Exit call
\* has finalized and popped its record.
C34_ResourceUsageAfterExit ==
    \A fr \in AllFrames :
        \A k \in At(fr, "ResourceUsage") : \E x \in At(fr, "Exit") : x < k

\* C34 amended: an activation calls ResourceUsage before its Exit call, and
\* the call changes nothing of the call stack, the aggregate list, the
\* records, the id counter or the frequency counters.
C34_ResourceUsageBeforeExitNoChange ==
    /\ [](\A fr \in AllFrames :
             \A k \in At(fr, "ResourceUsage"), x \in At(fr, "Exit") : k < x)
    /\ [][\A u \in Units : CallsResourceUsage(u) => UNCHANGED recorderVars]_vars

C34_Witness ==
    \E fr \in AllFrames :
        /\ At(fr, "ResourceUsage") # {} /\ At(fr, "Exit") # {}
        /\ traceRecords # <<>> /\ callStack # <<>>


\* the aggregate list, the call stack and the records are as before, and so
\* is every counter but that of name fn
OnlyCounterOf(fn) ==
    /\ UNCHANGED <<callStack, traceRecords, heap>>
    /\ \A other \in Funcs \ {fn} : execFrequency'[other] = execFrequency[other]

\* every call raises the counter of its name by one and of no other name,
\* touches neither stack nor aggregate list, and no increment is lost: the
\* counter of a name is the number of increments made for it
FrequencyCounted ==
    /\ [](\A fn \in Funcs : execFrequency[fn] = freqCalls[fn])
    /\ [][\A t \in Threads :
             (thr[t].op = "RecordExecutionFrequency" /\ StepOf(t))
             => /\ OnlyCounterOf(thr[t].fn)
                /\ execFrequency'[thr[t].fn] =
                      execFrequency[thr[t].fn] + (IF StmtAt(t) = "store" THEN 1 ELSE 0)]_vars

\* C35 as stated: RecordExecutionFrequency raises the counter of its name by
\* one, changes nothing else, loses no increment under concurrency, and
\* returns the new count.
C35_FrequencyReturnsNewCount ==
    /\ FrequencyCounted
    /\ [](\A t \in Threads :
             (thr[t].op = "RecordExecutionFrequency" /\ Returned(t))
                 => thr[t].ret = <<thr[t].count>>)

\* C35 amended: as stated, except that the function returns nothing; the
\* new count, one above the count before the call, is what it logs.
C35_FrequencyLogsNewCount ==
    /\ FrequencyCounted
    /\ [](\A t \in Threads :
             (thr[t].op = "RecordExecutionFrequency" /\ Returned(t))
                 => /\ thr[t].ret = NoResult
                    /\ thr[t].count = thr[t].tmp + 1)

C35_Witness ==
    \E t, s \in Threads :
        /\ AtStmt(t, "RecordExecutionFrequency", "Unlock")
        /\ AtStmt(s, "RecordExecutionFrequency", "Lock")
        /\ thr[t].fn = thr[s].fn
        /\ thr[t].count = 2

\* a function that serializes the aggregate list
Dumps == {"DumpCallGraphDOT", "DumpTrace", "DumpTracePretty"}

\* C36: the aggregate list is empty at the start; in every step its
\* contents remain a prefix of its new contents; and no step of
\* DumpCallGraphDOT, DumpTrace or DumpTracePretty changes it or a record.
C36_AggregateAppendOnly ==
    /\ traceRecords = <<>>
    /\ [][/\ IsPrefixOf(traceRecords, traceRecords')
          /\ \A t \in Threads :
                (thr[t].op \in Dumps /\ StepOf(t))
                    => UNCHANGED <<traceRecords, heap>>]_vars

C36_Witness ==
    /\ Len(traceRecords) >= 2
    /\ \E t \in Threads : thr[t].op = "RecordExit" /\ Returned(t)

\* C37: the ids of the records on the call stack increase strictly from
\* bottom to top, the bottom record has no caller id, and every other
\* stacked record's caller id is the id of the record directly beneath it.
C37_StackIsCallerChain ==
    \A k \in DOMAIN callStack :
        IF k = 1 THEN callStack[k].CallerID = 0
        ELSE /\ callStack[k - 1].UniqueID < callStack[k].UniqueID
             /\ callStack[k].CallerID = callStack[k - 1].UniqueID

C37_Witness ==
    /\ nUnits > 1
    /\ Len(callStack) >= 2
    /\ \E k \in DOMAIN callStack : k > 1 /\
          \E a \in ActsOf(callStack[k].UniqueID), b \in ActsOf(callStack[k - 1].UniqueID) :
              a.unit # b.unit



\* C38: a record the aggregate list points to is not changed by any later
\* step of any recorder function of any goroutine.
C38_AggregatedRecordsFrozen ==
    [][\A k \in DOMAIN traceRecords :
          heap'[traceRecords[k]] = heap[traceRecords[k]]]_vars

C38_Witness ==
    /\ traceRecords # <<>>
    /\ \E t \in Threads :
          thr[t].op \in TopWriters /\ Returned(t) /\ thr[t].top # 0

\* C39: DumpTracePretty is at a read of the aggregate list only while it
\* holds the lock, and never while another goroutine's RecordExit is at
\* its append.
C39_PrettyReadsUnderLock ==
    \A t \in Threads :
        (thr[t].op = "DumpTracePretty" /\ StmtAt(t) \in {"header", "elem"})
            => /\ mu = t
               /\ \A s \in Threads \ {t} : ~AtStmt(s, "RecordExit", "append")

\* C40: a file without an eligible function declaration (no function, or
\* only init and functions without a body) has after the engine ran the
\* imports and the declarations it had before.
C40_NoEligibleFunctionFileUnchanged ==
    (runs >= 1 /\ \A i \in DOMAIN orig.decls : ~Eligible(orig.decls[i])) =>
        /\ file.imports = orig.imports
        /\ file.decls = orig.decls

====
